---- MODULE Spec2Model ----
(***************************************************************************)
(* Tariff impact dashboard (src/app.py): the cost engine compute_costs,    *)
(* the tariff resolver compute_tariff_rate, the currency converters        *)
(* usd_to_chf / local_to_chf and the share clamp of build_map.             *)
(*                                                                         *)
(* Numbers.  A Python float is modelled exactly, as an extended rational   *)
(* <<n, d>> in lowest terms with d >= 0:  d > 0 is the number n/d,         *)
(* <<0,0>> is NaN, <<1,0>> is +inf and <<-1,0>> is -inf.  Rounding of      *)
(* binary floating point is not modelled.                                  *)
(*                                                                         *)
(* Tables.  A DataFrame is a sequence of records, one record per row, with *)
(* the sheet's column names as field names.  A missing string (pandas NaN  *)
(* in an object column) is the string NA, which compares unequal to        *)
(* everything, itself included.                                            *)
(***************************************************************************)
EXTENDS Integers, Sequences, FiniteSets, TLC

VARIABLES data, tariff_table, selection, call, memo

vars == <<data, tariff_table, selection, call, memo>>

(***************************************************************************)
(* Float arithmetic                                                        *)
(***************************************************************************)
Abs(i) == IF i < 0 THEN -i ELSE i

Sign(i) == IF i < 0 THEN -1 ELSE IF i = 0 THEN 0 ELSE 1

RECURSIVE GCD(_, _)
GCD(a, b) == IF b = 0 THEN a ELSE GCD(b, a % b)

\* n/d with d # 0, in lowest terms with a positive denominator
Rat(n, d) ==
    LET s == IF d < 0 THEN -1 ELSE 1
        g == GCD(Abs(n), Abs(d))
    IN  <<(s * n) \div g, (s * d) \div g>>

NaN == <<0, 0>>
Zero == <<0, 1>>
One == <<1, 1>>

IsNaN(x) == x = NaN
IsFinite(x) == x[2] # 0

\* pd.isna / pd.notna on a float
isna(x) == IsNaN(x)
notna(x) == ~IsNaN(x)

Neg(x) == <<-x[1], x[2]>>

Add(x, y) ==
    IF IsFinite(x) /\ IsFinite(y)
    THEN LET g == GCD(x[2], y[2])
         IN  Rat(x[1] * (y[2] \div g) + y[1] * (x[2] \div g), (x[2] \div g) * y[2])
    ELSE IF IsNaN(x) \/ IsNaN(y) THEN NaN
    ELSE IF ~IsFinite(x) /\ ~IsFinite(y) THEN (IF x = y THEN x ELSE NaN)
    ELSE IF ~IsFinite(x) THEN x ELSE y

Sub(x, y) == Add(x, Neg(y))

Mul(x, y) ==
    IF IsFinite(x) /\ IsFinite(y)
    THEN LET a == Rat(x[1], y[2])
             b == Rat(y[1], x[2])
         IN  <<a[1] * b[1], a[2] * b[2]>>
    ELSE IF IsNaN(x) \/ IsNaN(y) THEN NaN
    ELSE IF x[1] = 0 \/ y[1] = 0 THEN NaN
    ELSE <<Sign(x[1]) * Sign(y[1]), 0>>

\* x / y where y is a numpy float64: division by zero gives inf or NaN, no exception
Div(x, y) ==
    IF IsNaN(x) \/ IsNaN(y) THEN NaN
    ELSE IF ~IsFinite(y) THEN (IF IsFinite(x) THEN Zero ELSE NaN)
    ELSE IF y[1] = 0 THEN (IF x[1] = 0 THEN NaN ELSE <<Sign(x[1]), 0>>)
    ELSE IF ~IsFinite(x) THEN <<Sign(x[1]) * Sign(y[1]), 0>>
    ELSE Mul(x, Rat(y[2], y[1]))

\* float comparisons: every comparison with NaN is false
Lt(x, y) ==
    /\ ~IsNaN(x)
    /\ ~IsNaN(y)
    /\ IF IsFinite(x) /\ IsFinite(y) THEN x[1] * y[2] < y[1] * x[2]
       ELSE IF x = y THEN FALSE
       ELSE IF ~IsFinite(x) THEN x[1] < 0
       ELSE y[1] > 0

FEq(x, y) == ~IsNaN(x) /\ ~IsNaN(y) /\ x = y
Le(x, y) == Lt(x, y) \/ FEq(x, y)
Gt(x, y) == Lt(y, x)
Ge(x, y) == Le(y, x)

\* bool(x) of a float: only zero is falsy (NaN is truthy)
Truthy(x) == x # Zero

\* x / 100.0 and x / 10000.0
Hundred == 100
FixedFeeDivisor == 10000

(***************************************************************************)
(* Strings                                                                 *)
(***************************************************************************)
NA == "<NA>"

\* element-wise == of an object column against a scalar
Eq(a, b) == a # NA /\ b # NA /\ a = b

(***************************************************************************)
(* Raw table cells of the override records (what the Dash table holds):    *)
(* a number, None, or text that is no number.                              *)
(***************************************************************************)
NumCell(n, d) == [t |-> "num", n |-> n, d |-> d]
NoneCell == [t |-> "none", n |-> 0, d |-> 0]
TextCell == [t |-> "text", n |-> 0, d |-> 0]

\* pd.to_numeric(..., errors="coerce") on one cell
to_numeric(c) == IF c.t = "num" THEN <<c.n, c.d>> ELSE NaN

\* tariff_inputs = pd.DataFrame(tariff_records) with both rate columns coerced
TariffInputsFrame(tariff_records) ==
    [i \in 1..Len(tariff_records) |->
        [ComponentClass |-> tariff_records[i].ComponentClass,
         OriginCountry |-> tariff_records[i].OriginCountry,
         DefaultRate_pct |-> to_numeric(tariff_records[i].DefaultRate_pct),
         UserRate_pct |-> to_numeric(tariff_records[i].UserRate_pct)]]

(***************************************************************************)
(* Constants of the program                                                *)
(***************************************************************************)
TARGET_SKUS == <<"ACTUATOR_AX100", "ACTUATOR_AX200">>

US == "United States"

\* COUNTRY_TO_CURRENCY.get(country, "USD")
COUNTRY_TO_CURRENCY(country) ==
    CASE country = "Switzerland" -> "CHF"
      [] country = "China" -> "CNY"
      [] country = "Serbia" -> "RSD"
      [] country = "United States" -> "USD"
      [] country = "Mexico" -> "MXN"
      [] country = "Germany" -> "EUR"
      [] OTHER -> "USD"

US_CUSTOMER_NODE == [SiteID |-> "US_CUSTOMER", Country |-> US, Role |-> "Customer demand"]

\* sku.replace("ACTUATOR_", "")
SkuDisplay(sku) ==
    CASE sku = "ACTUATOR_AX100" -> "AX100"
      [] sku = "ACTUATOR_AX200" -> "AX200"
      [] OTHER -> sku

\* the datetime.date values of the workbook's ScenarioDate cells, written in ISO form
ScenarioDates == {"2025-01-01", "2025-06-01"}

\* The value of a control as a callback receives it.  The options of scenario-radio
\* hold datetime.date objects; the layout is sent to the browser as JSON, where a date
\* is its ISO text, and the callback gets that text back as a str.  A str is written
\* with the prefix str: here; it prints like the date and equals no date.
DeliveredValue(value) ==
    CASE value = "2025-01-01" -> "str:2025-01-01"
      [] value = "2025-06-01" -> "str:2025-06-01"
      [] OTHER -> value

ScenarioStrs == {DeliveredValue(date) : date \in ScenarioDates}

\* f"Scenario {scenario_date}": a date and a str of the same day print alike
ScenarioLabel(scenario_date) ==
    CASE scenario_date \in {"2025-01-01", "str:2025-01-01"} -> "Scenario 2025-01-01"
      [] scenario_date \in {"2025-06-01", "str:2025-06-01"} -> "Scenario 2025-06-01"
      [] OTHER -> "Scenario"

(***************************************************************************)
(* Currency converter                                                      *)
(***************************************************************************)
\* fx_rates.get(currency, default): fx_rates is the FX sheet indexed by Currency
FxGet(fx_rates, currency, default) ==
    IF \E i \in 1..Len(fx_rates) : fx_rates[i].Currency = currency
    THEN fx_rates[CHOOSE i \in 1..Len(fx_rates) : fx_rates[i].Currency = currency].USD_per_unit
    ELSE default

usd_to_chf(amount_usd, fx_rates) ==
    IF isna(amount_usd) THEN Zero
    ELSE LET usd_per_chf == FxGet(fx_rates, "CHF", One)
         IN  IF ~Truthy(usd_per_chf) THEN Zero
             ELSE Div(amount_usd, usd_per_chf)

\* mutant: an absent code converts at 1.0 even when the table has a USD row
local_to_chf_fallback_one(amount, currency, fx_rates) ==
    IF isna(amount) THEN Zero
    ELSE LET usd_per_unit == FxGet(fx_rates, currency, One)
             amount_usd == Mul(amount, usd_per_unit)
         IN  usd_to_chf(amount_usd, fx_rates)

local_to_chf(amount, currency, fx_rates) ==
    IF isna(amount) THEN Zero
    ELSE LET usd_per_unit == FxGet(fx_rates, currency, FxGet(fx_rates, "USD", One))
             amount_usd == Mul(amount, usd_per_unit)
         IN  usd_to_chf(amount_usd, fx_rates)

(***************************************************************************)
(* Tariff resolver                                                         *)
(***************************************************************************)
\* the rows compute_tariff_rate selects from its two tables
Candidate(tariff_inputs, component_class, origin_country) ==
    SelectSeq(tariff_inputs,
              LAMBDA r : /\ Eq(r.ComponentClass, component_class)
                         /\ Eq(r.OriginCountry, origin_country))

ScenarioMatch(tariffs_us, scenario_date, component_class, origin_country) ==
    SelectSeq(tariffs_us,
              LAMBDA r : /\ Eq(r.ScenarioDate, scenario_date)
                         /\ Eq(r.ComponentClass, component_class)
                         /\ Eq(r.OriginCountry, origin_country))

\* mutant: the default tier returns the field without testing that it is a number
compute_tariff_rate_default_unchecked(component_class, origin_country, scenario_date, tariff_inputs, tariffs_us) ==
    LET candidate == Candidate(tariff_inputs, component_class, origin_country)
        scenario_match == ScenarioMatch(tariffs_us, scenario_date, component_class,
                                        origin_country)
    IN  IF candidate # <<>> /\ notna(candidate[1].UserRate_pct)
        THEN [rate |-> Div(candidate[1].UserRate_pct, <<Hundred, 1>>), source |-> "Override"]
        ELSE IF scenario_match # <<>> /\ notna(scenario_match[1].US_AdValoremTariff_pct)
        THEN [rate |-> Div(scenario_match[1].US_AdValoremTariff_pct, <<Hundred, 1>>),
              source |-> ScenarioLabel(scenario_date)]
        ELSE IF candidate # <<>>
        THEN [rate |-> Div(candidate[1].DefaultRate_pct, <<Hundred, 1>>), source |-> "Default"]
        ELSE [rate |-> Zero, source |-> "None"]

\* mutant: the scenario tier returns the percentage itself, not the fraction
compute_tariff_rate_no_percent(component_class, origin_country, scenario_date, tariff_inputs, tariffs_us) ==
    LET candidate == Candidate(tariff_inputs, component_class, origin_country)
        scenario_match == ScenarioMatch(tariffs_us, scenario_date, component_class,
                                        origin_country)
    IN  IF candidate # <<>> /\ notna(candidate[1].UserRate_pct)
        THEN [rate |-> Div(candidate[1].UserRate_pct, <<Hundred, 1>>), source |-> "Override"]
        ELSE IF scenario_match # <<>> /\ notna(scenario_match[1].US_AdValoremTariff_pct)
        THEN [rate |-> scenario_match[1].US_AdValoremTariff_pct,
              source |-> ScenarioLabel(scenario_date)]
        ELSE IF candidate # <<>> /\ notna(candidate[1].DefaultRate_pct)
        THEN [rate |-> Div(candidate[1].DefaultRate_pct, <<Hundred, 1>>), source |-> "Default"]
        ELSE [rate |-> Zero, source |-> "None"]

compute_tariff_rate(component_class, origin_country, scenario_date, tariff_inputs, tariffs_us) ==
    LET candidate == Candidate(tariff_inputs, component_class, origin_country)
        scenario_match == ScenarioMatch(tariffs_us, scenario_date, component_class,
                                        origin_country)
    IN  IF candidate # <<>> /\ notna(candidate[1].UserRate_pct)
        THEN [rate |-> Div(candidate[1].UserRate_pct, <<Hundred, 1>>), source |-> "Override"]
        ELSE IF scenario_match # <<>> /\ notna(scenario_match[1].US_AdValoremTariff_pct)
        THEN [rate |-> Div(scenario_match[1].US_AdValoremTariff_pct, <<Hundred, 1>>),
              source |-> ScenarioLabel(scenario_date)]
        ELSE IF candidate # <<>> /\ notna(candidate[1].DefaultRate_pct)
        THEN [rate |-> Div(candidate[1].DefaultRate_pct, <<Hundred, 1>>), source |-> "Default"]
        ELSE [rate |-> Zero, source |-> "None"]

(***************************************************************************)
(* Cost engine                                                             *)
(***************************************************************************)
NoneStr == "<None>"

RECURSIVE SumSeq(_)
\* running total: total = 0.0; for x in s: total += x
SumSeq(s) == IF s = <<>> THEN Zero ELSE Add(SumSeq(SubSeq(s, 1, Len(s) - 1)), s[Len(s)])

RECURSIVE PyMax(_)
\* the builtin max(list): keeps the first item unless a later one compares greater
PyMax(s) ==
    IF Len(s) = 1 THEN s[1]
    ELSE LET m == PyMax(SubSeq(s, 1, Len(s) - 1))
         IN  IF Gt(s[Len(s)], m) THEN s[Len(s)] ELSE m

RECURSIVE FlatMap(_, _)
FlatMap(Op(_), s) == IF s = <<>> THEN <<>> ELSE Op(Head(s)) \o FlatMap(Op, Tail(s))

\* data["Sites"].set_index("SiteID"): membership and row lookup
SiteKnown(sites, site_id) == \E i \in 1..Len(sites) : sites[i].SiteID = site_id
SiteRow(sites, site_id) == sites[CHOOSE i \in 1..Len(sites) : sites[i].SiteID = site_id]

\* Components left-merged with the sites on OriginSiteID (ComponentOrigin, OriginRole)
ComponentsDf(d) ==
    FlatMap(LAMBDA c :
                LET m == SelectSeq(d.Sites, LAMBDA s : Eq(s.SiteID, c.OriginSiteID))
                IN  IF m = <<>>
                    THEN <<[PartID |-> c.PartID, Class |-> c.Class,
                            UnitWeight_kg |-> c.UnitWeight_kg,
                            BasePrice_local |-> c.BasePrice_local,
                            OriginSiteID |-> c.OriginSiteID,
                            ComponentOrigin |-> NA, OriginRole |-> NA]>>
                    ELSE [j \in 1..Len(m) |->
                            [PartID |-> c.PartID, Class |-> c.Class,
                             UnitWeight_kg |-> c.UnitWeight_kg,
                             BasePrice_local |-> c.BasePrice_local,
                             OriginSiteID |-> c.OriginSiteID,
                             ComponentOrigin |-> m[j].Country, OriginRole |-> m[j].Role]],
            d.Components)

\* sku_bom.merge(components_df, how="left", on="PartID")
BomComponents(d, sku) ==
    LET sku_bom == SelectSeq(d.BOM, LAMBDA b : Eq(b.ParentSKU, sku))
        components_df == ComponentsDf(d)
    IN  FlatMap(LAMBDA b :
                    LET m == SelectSeq(components_df, LAMBDA c : Eq(c.PartID, b.PartID))
                    IN  IF m = <<>>
                        THEN <<[PartID |-> b.PartID, Qty |-> b.Qty, Class |-> NA,
                                UnitWeight_kg |-> NaN, BasePrice_local |-> NaN,
                                OriginSiteID |-> NA, ComponentOrigin |-> NA,
                                OriginRole |-> NA]>>
                        ELSE [j \in 1..Len(m) |->
                                [PartID |-> b.PartID, Qty |-> b.Qty, Class |-> m[j].Class,
                                 UnitWeight_kg |-> m[j].UnitWeight_kg,
                                 BasePrice_local |-> m[j].BasePrice_local,
                                 OriginSiteID |-> m[j].OriginSiteID,
                                 ComponentOrigin |-> m[j].ComponentOrigin,
                                 OriginRole |-> m[j].OriginRole]],
                sku_bom)

\* logistics_lanes[(FromCountry == a) & (ToCountry == b)]
LaneMatch(lanes, from_country, to_country) ==
    SelectSeq(lanes, LAMBDA l : Eq(l.FromCountry, from_country) /\ Eq(l.ToCountry, to_country))

\* cost and lead time of one leg over the first matching lane, zero without a lane
LaneLeg(lanes, from_country, to_country, weight, include_fixed_fees, fx_rates) ==
    LET lane_match == LaneMatch(lanes, from_country, to_country)
    IN  IF lane_match # <<>>
        THEN LET lane_row == lane_match[1]
                 per_kg == Mul(lane_row.Cost_per_kg_USD, weight)
                 cost_usd == IF include_fixed_fees
                             THEN Add(per_kg, Div(lane_row.Fixed_per_shipment_USD,
                                                  <<FixedFeeDivisor, 1>>))
                             ELSE per_kg
             IN  [cost |-> usd_to_chf(cost_usd, fx_rates), lead |-> lane_row.LeadTime_days]
        ELSE [cost |-> Zero, lead |-> Zero]

\* yield_rate = option_row.get("Yield", 1.0); if not yield_rate: yield_rate = 1.0
YieldRate(option_row) == IF ~Truthy(option_row.Yield) THEN One ELSE option_row.Yield

\* origin_site / origin_country / origin_role of a BOM line
Origin(d, component) ==
    LET origin_site == component.OriginSiteID
        known == origin_site # NA /\ SiteKnown(d.Sites, origin_site)
    IN  [site |-> origin_site,
         country |-> IF known THEN SiteRow(d.Sites, origin_site).Country
                     ELSE component.ComponentOrigin,
         role |-> IF known THEN SiteRow(d.Sites, origin_site).Role ELSE NoneStr]

\* mutant: the component tariff is resolved wherever the assembly site is
ComponentTariff_everywhere(component_class, origin_country, assembly_country, scenario_date, tariff_inputs, tariffs_us) ==
    compute_tariff_rate(component_class, origin_country, scenario_date, tariff_inputs,
                        tariffs_us)

\* the tariff event of a component: resolved only when the assembly country is the US
ComponentTariff(component_class, origin_country, assembly_country, scenario_date, tariff_inputs, tariffs_us) ==
    IF Eq(assembly_country, US)
    THEN compute_tariff_rate(component_class, origin_country, scenario_date,
                             tariff_inputs, tariffs_us)
    ELSE [rate |-> Zero, source |-> "Outside US"]

\* the amounts of one BOM line and its flow entry
LineRecord(sku, component, assembly_site_id, assembly_site, origin, material_cost, leg, tariff, component_tariff_value) ==
    [material_cost |-> material_cost,
     logistics_cost |-> leg.cost,
     lead_time |-> leg.lead,
     component_tariff_value |-> component_tariff_value,
     flow_entry |-> [SKU |-> sku, component |-> component.PartID,
                     from_site |-> origin.site, to_site |-> assembly_site_id,
                     from_country |-> origin.country, to_country |-> assembly_site.Country,
                     from_role |-> origin.role, to_role |-> assembly_site.Role,
                     tariff_rate |-> tariff.rate, tariff_source |-> tariff.source,
                     cost_value |-> Add(Add(material_cost, leg.cost),
                                        component_tariff_value)]]

LineCosts(d, sku, component, assembly_site_id, assembly_site, origin, quantity, scenario_date, tariff_inputs, include_fixed_fees) ==
    LET material_cost == local_to_chf(Mul(component.BasePrice_local, quantity),
                                      COUNTRY_TO_CURRENCY(origin.country), d.FX)
        tariff == ComponentTariff(component.Class, origin.country, assembly_site.Country,
                                  scenario_date, tariff_inputs, d.Tariffs_US)
    IN  LineRecord(sku, component, assembly_site_id, assembly_site, origin, material_cost,
                   LaneLeg(d.LogisticsLanes, origin.country, assembly_site.Country,
                           Mul(quantity, component.UnitWeight_kg), include_fixed_fees, d.FX),
                   tariff, Mul(material_cost, tariff.rate))

\* one iteration of the loop over bom_components
BomLine(d, sku, component, assembly_site_id, assembly_site, yield_rate, scenario_date, tariff_inputs, include_fixed_fees) ==
    LineCosts(d, sku, component, assembly_site_id, assembly_site, Origin(d, component),
              Div(component.Qty, yield_rate), scenario_date, tariff_inputs,
              include_fixed_fees)

\* entry["cost_share"] = entry["cost_value"] / landed_cost if landed_cost else 0.0
CostShare(cost_value, landed_cost) ==
    IF Truthy(landed_cost) THEN Div(cost_value, landed_cost) ELSE Zero

WithShare(entry, landed_cost) ==
    [SKU |-> entry.SKU, component |-> entry.component,
     from_site |-> entry.from_site, to_site |-> entry.to_site,
     from_country |-> entry.from_country, to_country |-> entry.to_country,
     from_role |-> entry.from_role, to_role |-> entry.to_role,
     tariff_rate |-> entry.tariff_rate, tariff_source |-> entry.tariff_source,
     cost_value |-> entry.cost_value,
     cost_share |-> CostShare(entry.cost_value, landed_cost)]

\* mutant: every component edge is emitted, the filter is gone
EmittedComponentFlows_unfiltered(entries, landed_cost) ==
    [i \in 1..Len(entries) |-> WithShare(entries[i], landed_cost)]

\* component edges kept by the filter: dropped when cost_value <= 0
EmittedComponentFlows(entries, landed_cost) ==
    LET kept == SelectSeq(entries, LAMBDA e : ~Le(e.cost_value, Zero))
    IN  [i \in 1..Len(kept) |-> WithShare(kept[i], landed_cost)]

\* the finished-good edge, appended only when its value is > 0
FinalFlows(sku, assembly_site_id, assembly_site, final_tariff, final_flow_value, landed_cost) ==
    IF Gt(final_flow_value, Zero)
    THEN <<[SKU |-> sku, component |-> "Finished Good",
            from_site |-> assembly_site_id, to_site |-> US_CUSTOMER_NODE.SiteID,
            from_country |-> assembly_site.Country, to_country |-> US,
            from_role |-> assembly_site.Role, to_role |-> US_CUSTOMER_NODE.Role,
            tariff_rate |-> final_tariff.rate, tariff_source |-> final_tariff.source,
            cost_value |-> final_flow_value,
            cost_share |-> CostShare(final_flow_value, landed_cost)]>>
    ELSE <<>>

\* mutant: the margin is divided by the list price without the test for 0
MarginPct_unguarded(margin_chf, list_price_chf) ==
    Div(margin_chf, list_price_chf)

\* margin_pct = (margin_chf / list_price_chf) if list_price_chf else 0.0
MarginPct(margin_chf, list_price_chf) ==
    IF Truthy(list_price_chf) THEN Div(margin_chf, list_price_chf) ELSE Zero

\* mutant: the inbound lead times are added up
LeadTimeDays_sum(component_leads, outbound_lead) ==
    Add(SumSeq(component_leads), outbound_lead)

\* lead_time_days = (max(component_leads) if component_leads else 0.0) + outbound_lead
LeadTimeDays(component_leads, outbound_lead) ==
    Add(IF component_leads # <<>> THEN PyMax(component_leads) ELSE Zero, outbound_lead)

\* the summary row and the edges of one SKU, from its totals
RollUpRecord(sku, scenario_date, assembly_site_id, assembly_site, lines, t, final_tariff, landed_cost, list_price_chf, final_flow_value) ==
    [skipped |-> FALSE,
     row |-> [ScenarioDate |-> scenario_date, AssemblySite |-> assembly_site_id,
              SKU |-> sku, SKU_Display |-> SkuDisplay(sku),
              MaterialCost_CHF |-> t.material_total,
              InboundLogistics_CHF |-> t.inbound_logistics_total,
              OutboundLogistics_CHF |-> t.outbound_cost,
              Tariffs_CHF |-> t.total_tariffs,
              ConversionCost_CHF |-> t.conversion_cost_chf,
              LandedCost_CHF |-> landed_cost,
              ListPrice_CHF |-> list_price_chf,
              Margin_CHF |-> Sub(list_price_chf, landed_cost),
              MarginPct |-> MarginPct(Sub(list_price_chf, landed_cost), list_price_chf),
              LeadTime_days |-> LeadTimeDays([i \in 1..Len(lines) |-> lines[i].lead_time],
                                             t.outbound_lead)],
     flows |-> EmittedComponentFlows([i \in 1..Len(lines) |-> lines[i].flow_entry],
                                     landed_cost)
               \o FinalFlows(sku, assembly_site_id, assembly_site, final_tariff,
                             final_flow_value, landed_cost),
     \* locals of the iteration, kept for the properties stated about them
     component_flow_entries |-> [i \in 1..Len(lines) |-> lines[i].flow_entry],
     component_leads |-> [i \in 1..Len(lines) |-> lines[i].lead_time],
     outbound_lead |-> t.outbound_lead,
     final_flow_value |-> final_flow_value,
     final_tariff |-> final_tariff,
     final_tariff_value |-> t.final_tariff_value,
     final_tariff_base |-> t.final_tariff_base,
     component_tariffs_total |-> t.component_tariffs_total]

\* landed_cost = material_total + total_logistics + total_tariffs + conversion_cost_chf
LandedCost(t) ==
    Add(Add(Add(t.material_total, Add(t.inbound_logistics_total, t.outbound_cost)),
            t.total_tariffs), t.conversion_cost_chf)

\* mutant: the final tariff is charged on the outbound logistics cost as well
Totals_outbound_in_base(material_total, inbound_logistics_total, component_tariffs_total, conversion_cost_chf, outbound, final_tariff_rate) ==
    LET final_tariff_base == Add(Add(Add(material_total, inbound_logistics_total),
                                     conversion_cost_chf), outbound.cost)
        final_tariff_value == Mul(final_tariff_base, final_tariff_rate)
    IN  [material_total |-> material_total,
         inbound_logistics_total |-> inbound_logistics_total,
         component_tariffs_total |-> component_tariffs_total,
         conversion_cost_chf |-> conversion_cost_chf,
         outbound_cost |-> outbound.cost,
         outbound_lead |-> outbound.lead,
         final_tariff_base |-> final_tariff_base,
         final_tariff_value |-> final_tariff_value,
         total_tariffs |-> Add(component_tariffs_total, final_tariff_value)]

\* the running totals once the loop over the BOM lines has ended, and the final tariff
Totals(material_total, inbound_logistics_total, component_tariffs_total, conversion_cost_chf, outbound, final_tariff_rate) ==
    LET final_tariff_base == Add(Add(material_total, inbound_logistics_total),
                                 conversion_cost_chf)
        final_tariff_value == Mul(final_tariff_base, final_tariff_rate)
    IN  [material_total |-> material_total,
         inbound_logistics_total |-> inbound_logistics_total,
         component_tariffs_total |-> component_tariffs_total,
         conversion_cost_chf |-> conversion_cost_chf,
         outbound_cost |-> outbound.cost,
         outbound_lead |-> outbound.lead,
         final_tariff_base |-> final_tariff_base,
         final_tariff_value |-> final_tariff_value,
         total_tariffs |-> Add(component_tariffs_total, final_tariff_value)]

\* the finished good's tariff event: resolved only when the assembly country is not the US
FinalTariff(assembly_country, scenario_date, tariff_inputs, tariffs_us) ==
    IF ~Eq(assembly_country, US)
    THEN compute_tariff_rate("FinalAssembly", assembly_country, scenario_date,
                             tariff_inputs, tariffs_us)
    ELSE [rate |-> Zero, source |-> "Domestic"]

RollUpTotals(d, sku, scenario_date, assembly_site_id, assembly_site, sku_product, lines, t, final_tariff) ==
    RollUpRecord(sku, scenario_date, assembly_site_id, assembly_site, lines, t, final_tariff,
                 LandedCost(t), usd_to_chf(sku_product.ListPrice_USD, d.FX),
                 Add(t.outbound_cost, t.final_tariff_value))

RollUpLines(d, sku, scenario_date, assembly_site_id, assembly_site, sku_product, option_row, lines, final_tariff, include_fixed_fees) ==
    RollUpTotals(d, sku, scenario_date, assembly_site_id, assembly_site, sku_product, lines,
                 Totals(SumSeq([i \in 1..Len(lines) |-> lines[i].material_cost]),
                        SumSeq([i \in 1..Len(lines) |-> lines[i].logistics_cost]),
                        SumSeq([i \in 1..Len(lines) |-> lines[i].component_tariff_value]),
                        usd_to_chf(option_row.BaseConvCost_USD, d.FX),
                        LaneLeg(d.LogisticsLanes, assembly_site.Country, US,
                                sku_product.UnitWeight_kg, include_fixed_fees, d.FX),
                        final_tariff.rate),
                 final_tariff)

RollUpRows(d, sku, scenario_date, assembly_site_id, assembly_site, sku_product, option_row, bom_components, tariff_inputs, include_fixed_fees) ==
    RollUpLines(d, sku, scenario_date, assembly_site_id, assembly_site, sku_product,
                option_row,
                [i \in 1..Len(bom_components) |->
                    BomLine(d, sku, bom_components[i], assembly_site_id, assembly_site,
                            YieldRate(option_row), scenario_date, tariff_inputs,
                            include_fixed_fees)],
                FinalTariff(assembly_site.Country, scenario_date, tariff_inputs, d.Tariffs_US),
                include_fixed_fees)

\* the body of "for sku in TARGET_SKUS": skipped, or a summary row with its edges
RollUp(d, sku, scenario_date, assembly_site_id, tariff_inputs, include_fixed_fees) ==
    LET product == SelectSeq(d.Products, LAMBDA p : Eq(p.SKU, sku))
        option == SelectSeq(d.AssemblyOptions,
                            LAMBDA o : Eq(o.SKU, sku) /\ Eq(o.AssemblySiteID, assembly_site_id))
        sku_bom == SelectSeq(d.BOM, LAMBDA b : Eq(b.ParentSKU, sku))
    IN  IF product = <<>> \/ option = <<>> \/ sku_bom = <<>>
        THEN [skipped |-> TRUE]
        ELSE RollUpRows(d, sku, scenario_date, assembly_site_id,
                        SiteRow(d.Sites, assembly_site_id), product[1], option[1],
                        BomComponents(d, sku), tariff_inputs, include_fixed_fees)

\* the iterations of "for sku in TARGET_SKUS" that reach the end of the loop body
RolledUp(d, scenario_date, assembly_site_id, tariff_inputs, include_fixed_fees) ==
    LET all == [i \in 1..Len(TARGET_SKUS) |->
                    RollUp(d, TARGET_SKUS[i], scenario_date, assembly_site_id,
                           tariff_inputs, include_fixed_fees)]
    IN  SelectSeq(all, LAMBDA r : ~r.skipped)

\* the value compute_costs returns: summary rows and flow_records
CostsReturn(rolled) ==
    [status |-> "ok",
     summary |-> [i \in 1..Len(rolled) |-> rolled[i].row],
     flows |-> FlatMap(LAMBDA r : r.flows, rolled),
     rollups |-> rolled]

\* an exception leaving compute_costs
Raised(exception) ==
    [status |-> exception, summary |-> <<>>, flows |-> <<>>, rollups |-> <<>>]

\* mutant: no membership test; sites.loc[assembly_site_id] raises KeyError for an
\* unknown site
compute_costs_unchecked_site(d, scenario_date, assembly_site_id, tariff_records, include_fixed_fees) ==
    IF ~SiteKnown(d.Sites, assembly_site_id)
    THEN Raised("KeyError")
    ELSE CostsReturn(RolledUp(d, scenario_date, assembly_site_id,
                              TariffInputsFrame(tariff_records), include_fixed_fees))

\* mutant: no "if not option_mask.any(): continue"; .iloc[0] on the empty selection
\* raises IndexError
compute_costs_unguarded_option(d, scenario_date, assembly_site_id, tariff_records, include_fixed_fees) ==
    IF ~SiteKnown(d.Sites, assembly_site_id)
    THEN Raised("ValueError")
    ELSE IF \E i \in 1..Len(TARGET_SKUS) :
                /\ SelectSeq(d.Products, LAMBDA q : Eq(q.SKU, TARGET_SKUS[i])) # <<>>
                /\ SelectSeq(d.AssemblyOptions,
                             LAMBDA o : /\ Eq(o.SKU, TARGET_SKUS[i])
                                        /\ Eq(o.AssemblySiteID, assembly_site_id)) = <<>>
    THEN Raised("IndexError")
    ELSE CostsReturn(RolledUp(d, scenario_date, assembly_site_id,
                              TariffInputsFrame(tariff_records), include_fixed_fees))

\* compute_costs: the unknown-site failure, or the rows and edges of both target SKUs
compute_costs(d, scenario_date, assembly_site_id, tariff_records, include_fixed_fees) ==
    IF ~SiteKnown(d.Sites, assembly_site_id)
    THEN Raised("ValueError")
    ELSE CostsReturn(RolledUp(d, scenario_date, assembly_site_id,
                              TariffInputsFrame(tariff_records), include_fixed_fees))

\* mutant: missing shares are filled but negative ones are not clipped
build_map_share_unclipped(cost_share) ==
    IF isna(cost_share) THEN Zero ELSE cost_share

\* build_map: flow_df["cost_share"].fillna(0.0).clip(lower=0.0)
build_map_share(cost_share) ==
    LET filled == IF isna(cost_share) THEN Zero ELSE cost_share
    IN  IF Lt(filled, Zero) THEN Zero ELSE filled

(***************************************************************************)
(* The workbook.  BaseData is a small complete workbook; a gap is one      *)
(* defect of the reference data (a missing row, a missing or odd number).  *)
(***************************************************************************)
MaxGaps == 1

N(i) == <<i, 1>>

BaseData ==
    [Sites |-> <<
        [SiteID |-> "SUP_CN_SZ", Country |-> "China", Role |-> "Supplier"],
        [SiteID |-> "BU_CH_MUR", Country |-> "Switzerland", Role |-> "Assembly"],
        [SiteID |-> "PLANT_US_MI", Country |-> "United States", Role |-> "Assembly"],
        [SiteID |-> "PLANT_MX_NL", Country |-> "Mexico", Role |-> "Assembly"]>>,
     Products |-> <<
        [SKU |-> "ACTUATOR_AX100", UnitWeight_kg |-> N(2), ListPrice_USD |-> N(400)],
        [SKU |-> "ACTUATOR_AX200", UnitWeight_kg |-> N(3), ListPrice_USD |-> N(600)]>>,
     BOM |-> <<
        [ParentSKU |-> "ACTUATOR_AX100", PartID |-> "HOUSING_H1", Qty |-> N(1)],
        [ParentSKU |-> "ACTUATOR_AX100", PartID |-> "MOTOR_M1", Qty |-> N(2)],
        [ParentSKU |-> "ACTUATOR_AX200", PartID |-> "MOTOR_M1", Qty |-> N(1)]>>,
     Components |-> <<
        [PartID |-> "MOTOR_M1", Class |-> "Motor", UnitWeight_kg |-> N(1),
         BasePrice_local |-> N(100), OriginSiteID |-> "SUP_CN_SZ"],
        [PartID |-> "HOUSING_H1", Class |-> "Housing", UnitWeight_kg |-> <<1, 2>>,
         BasePrice_local |-> N(50), OriginSiteID |-> "BU_CH_MUR"]>>,
     AssemblyOptions |-> <<
        [SKU |-> "ACTUATOR_AX100", AssemblySiteID |-> "PLANT_US_MI",
         BaseConvCost_USD |-> N(20), Yield |-> N(1)],
        [SKU |-> "ACTUATOR_AX100", AssemblySiteID |-> "PLANT_MX_NL",
         BaseConvCost_USD |-> N(10), Yield |-> <<4, 5>>],
        [SKU |-> "ACTUATOR_AX100", AssemblySiteID |-> "BU_CH_MUR",
         BaseConvCost_USD |-> N(30), Yield |-> N(1)],
        [SKU |-> "ACTUATOR_AX200", AssemblySiteID |-> "PLANT_US_MI",
         BaseConvCost_USD |-> N(25), Yield |-> N(1)],
        [SKU |-> "ACTUATOR_AX200", AssemblySiteID |-> "PLANT_MX_NL",
         BaseConvCost_USD |-> N(12), Yield |-> <<4, 5>>]>>,
     LogisticsLanes |-> <<
        [FromCountry |-> "China", ToCountry |-> "United States", Cost_per_kg_USD |-> N(1),
         Fixed_per_shipment_USD |-> N(5000), LeadTime_days |-> N(12)],
        [FromCountry |-> "Switzerland", ToCountry |-> "United States", Cost_per_kg_USD |-> N(2),
         Fixed_per_shipment_USD |-> N(2500), LeadTime_days |-> N(5)],
        [FromCountry |-> "China", ToCountry |-> "Mexico", Cost_per_kg_USD |-> N(1),
         Fixed_per_shipment_USD |-> N(5000), LeadTime_days |-> N(12)],
        [FromCountry |-> "Switzerland", ToCountry |-> "Mexico", Cost_per_kg_USD |-> N(2),
         Fixed_per_shipment_USD |-> N(2500), LeadTime_days |-> N(5)],
        [FromCountry |-> "Mexico", ToCountry |-> "United States", Cost_per_kg_USD |-> <<1, 2>>,
         Fixed_per_shipment_USD |-> N(2500), LeadTime_days |-> N(3)],
        [FromCountry |-> "China", ToCountry |-> "Switzerland", Cost_per_kg_USD |-> N(1),
         Fixed_per_shipment_USD |-> N(5000), LeadTime_days |-> N(20)]>>,
     Tariffs_US |-> <<
        [ScenarioDate |-> "2025-01-01", ComponentClass |-> "Motor",
         OriginCountry |-> "China", US_AdValoremTariff_pct |-> N(10)],
        [ScenarioDate |-> "2025-06-01", ComponentClass |-> "Motor",
         OriginCountry |-> "China", US_AdValoremTariff_pct |-> N(25)],
        [ScenarioDate |-> "2025-06-01", ComponentClass |-> "Housing",
         OriginCountry |-> "Switzerland", US_AdValoremTariff_pct |-> N(15)],
        [ScenarioDate |-> "2025-06-01", ComponentClass |-> "FinalAssembly",
         OriginCountry |-> "Mexico", US_AdValoremTariff_pct |-> N(5)]>>,
     TariffInputs |-> <<
        [ComponentClass |-> "Motor", OriginCountry |-> "China",
         DefaultRate_pct |-> N(25), UserRate_pct |-> NaN],
        [ComponentClass |-> "FinalAssembly", OriginCountry |-> "Mexico",
         DefaultRate_pct |-> N(2), UserRate_pct |-> NaN]>>,
     FX |-> <<
        [Currency |-> "USD", USD_per_unit |-> N(1)],
        [Currency |-> "CHF", USD_per_unit |-> <<5, 4>>],
        [Currency |-> "CNY", USD_per_unit |-> <<1, 8>>]>>]

MapRows(Op(_), s) == [i \in 1..Len(s) |-> Op(s[i])]

Gaps ==
    <<"no_inbound_lane", "no_outbound_lane", "no_fx_cny", "no_fx_chf", "fx_chf_zero",
      "fx_cny_nan", "nan_price", "negative_price", "nan_qty", "no_component_row",
      "unknown_origin", "no_option", "no_bom", "no_product", "yield_zero", "yield_nan",
      "nan_conv", "negative_conv", "nan_lead", "nan_list_price", "zero_list_price",
      "no_overrides", "unlisted_option_site", "no_site_row", "fx_chf_nan",
      "domestic_lane">>

ApplyGap(d, g) ==
    CASE g = "no_inbound_lane" ->
            [d EXCEPT !.LogisticsLanes = SelectSeq(@, LAMBDA l : l.FromCountry # "China")]
      [] g = "no_outbound_lane" ->
            [d EXCEPT !.LogisticsLanes = SelectSeq(@, LAMBDA l : l.FromCountry # "Mexico")]
      [] g = "no_fx_cny" -> [d EXCEPT !.FX = SelectSeq(@, LAMBDA r : r.Currency # "CNY")]
      [] g = "no_fx_chf" -> [d EXCEPT !.FX = SelectSeq(@, LAMBDA r : r.Currency # "CHF")]
      [] g = "fx_chf_zero" ->
            [d EXCEPT !.FX = MapRows(LAMBDA r : IF r.Currency = "CHF"
                                                THEN [r EXCEPT !.USD_per_unit = Zero] ELSE r, @)]
      [] g = "fx_cny_nan" ->
            [d EXCEPT !.FX = MapRows(LAMBDA r : IF r.Currency = "CNY"
                                                THEN [r EXCEPT !.USD_per_unit = NaN] ELSE r, @)]
      [] g = "nan_price" ->
            [d EXCEPT !.Components = MapRows(LAMBDA c : IF c.PartID = "MOTOR_M1"
                                                THEN [c EXCEPT !.BasePrice_local = NaN] ELSE c, @)]
      [] g = "negative_price" ->
            [d EXCEPT !.Components = MapRows(LAMBDA c : IF c.PartID = "MOTOR_M1"
                                                THEN [c EXCEPT !.BasePrice_local = N(-900)] ELSE c, @)]
      [] g = "nan_qty" ->
            [d EXCEPT !.BOM = MapRows(LAMBDA b : IF b.PartID = "HOUSING_H1"
                                                THEN [b EXCEPT !.Qty = NaN] ELSE b, @)]
      [] g = "no_component_row" ->
            [d EXCEPT !.Components = SelectSeq(@, LAMBDA c : c.PartID # "HOUSING_H1")]
      [] g = "unknown_origin" ->
            [d EXCEPT !.Components = MapRows(LAMBDA c : IF c.PartID = "HOUSING_H1"
                                                THEN [c EXCEPT !.OriginSiteID = "SUP_DE_XX"] ELSE c, @)]
      [] g = "no_option" ->
            [d EXCEPT !.AssemblyOptions = SelectSeq(@, LAMBDA o : o.SKU # "ACTUATOR_AX100")]
      [] g = "no_bom" ->
            [d EXCEPT !.BOM = SelectSeq(@, LAMBDA b : b.ParentSKU # "ACTUATOR_AX200")]
      [] g = "no_product" ->
            [d EXCEPT !.Products = SelectSeq(@, LAMBDA q : q.SKU # "ACTUATOR_AX200")]
      [] g = "yield_zero" ->
            [d EXCEPT !.AssemblyOptions = MapRows(LAMBDA o : IF o.AssemblySiteID = "PLANT_MX_NL"
                                                THEN [o EXCEPT !.Yield = Zero] ELSE o, @)]
      [] g = "yield_nan" ->
            [d EXCEPT !.AssemblyOptions = MapRows(LAMBDA o : IF o.AssemblySiteID = "PLANT_MX_NL"
                                                THEN [o EXCEPT !.Yield = NaN] ELSE o, @)]
      [] g = "nan_conv" ->
            [d EXCEPT !.AssemblyOptions = MapRows(LAMBDA o : IF o.AssemblySiteID = "PLANT_US_MI"
                                                THEN [o EXCEPT !.BaseConvCost_USD = NaN] ELSE o, @)]
      [] g = "negative_conv" ->
            [d EXCEPT !.AssemblyOptions = MapRows(LAMBDA o : IF o.AssemblySiteID = "PLANT_US_MI"
                                                THEN [o EXCEPT !.BaseConvCost_USD = N(-500)] ELSE o, @)]
      [] g = "nan_lead" ->
            [d EXCEPT !.LogisticsLanes = MapRows(LAMBDA l : IF l.FromCountry = "Switzerland"
                                                THEN [l EXCEPT !.LeadTime_days = NaN] ELSE l, @)]
      [] g = "nan_list_price" ->
            [d EXCEPT !.Products = MapRows(LAMBDA q : IF q.SKU = "ACTUATOR_AX100"
                                                THEN [q EXCEPT !.ListPrice_USD = NaN] ELSE q, @)]
      [] g = "zero_list_price" ->
            [d EXCEPT !.Products = MapRows(LAMBDA q : IF q.SKU = "ACTUATOR_AX200"
                                                THEN [q EXCEPT !.ListPrice_USD = Zero] ELSE q, @)]
      [] g = "no_overrides" -> [d EXCEPT !.TariffInputs = <<>>]
      [] g = "unlisted_option_site" ->
            [d EXCEPT !.AssemblyOptions =
                Append(@, [SKU |-> "ACTUATOR_AX200", AssemblySiteID |-> "PLANT_XX",
                           BaseConvCost_USD |-> N(15), Yield |-> N(1)])]
      [] g = "fx_chf_nan" ->
            [d EXCEPT !.FX = MapRows(LAMBDA r : IF r.Currency = "CHF"
                                                THEN [r EXCEPT !.USD_per_unit = NaN] ELSE r, @)]
      [] g = "domestic_lane" ->
            [d EXCEPT !.LogisticsLanes =
                Append(@, [FromCountry |-> US, ToCountry |-> US, Cost_per_kg_USD |-> <<1, 2>>,
                           Fixed_per_shipment_USD |-> N(2500), LeadTime_days |-> N(2)])]
      [] g = "no_site_row" ->
            [d EXCEPT !.Sites = SelectSeq(@, LAMBDA x : x.SiteID # "BU_CH_MUR")]

RECURSIVE ApplyGaps(_, _, _)
\* the gaps of G applied to d in the order of Gaps, from index i on
ApplyGaps(d, G, i) ==
    IF i > Len(Gaps) THEN d
    ELSE ApplyGaps(IF Gaps[i] \in G THEN ApplyGap(d, Gaps[i]) ELSE d, G, i + 1)

RECURSIVE SetsUpTo(_, _)
\* the subsets of S with at most k elements
SetsUpTo(S, k) ==
    IF k = 0 THEN {{}}
    ELSE LET P == SetsUpTo(S, k - 1) IN P \cup {T \cup {x} : T \in P, x \in S}

GapSets == SetsUpTo({Gaps[i] : i \in 1..Len(Gaps)}, MaxGaps)

Workbooks == {ApplyGaps(BaseData, G, 1) : G \in GapSets}

(***************************************************************************)
(* The dashboard's inputs and the calls                                    *)
(***************************************************************************)
\* build_app: the override grid's initial records (a missing user rate becomes None)
tariff_records_default(d) ==
    [i \in 1..Len(d.TariffInputs) |->
        LET r == d.TariffInputs[i]
        IN  [ComponentClass |-> r.ComponentClass,
             OriginCountry |-> r.OriginCountry,
             DefaultRate_pct |-> NumCell(r.DefaultRate_pct[1], r.DefaultRate_pct[2]),
             UserRate_pct |-> IF isna(r.UserRate_pct) THEN NoneCell
                              ELSE NumCell(r.UserRate_pct[1], r.UserRate_pct[2])]]

\* site identifiers a caller may pass: the sites of the workbook and one that is none
SiteArgs == {"PLANT_US_MI", "PLANT_MX_NL", "BU_CH_MUR", "PLANT_XX"}

\* the UserRate_pct values of the records a caller may pass
UserCells == {NoneCell, TextCell, NumCell(10, 1), NumCell(-300, 1)}

NoCall == [fn |-> "none"]

\* the site identifiers of the model in sorted order
SiteOrder == <<"BU_CH_MUR", "PLANT_MX_NL", "PLANT_US_MI", "PLANT_XX">>

\* build_app: assembly_sites = sorted({row["AssemblySiteID"] for AssemblyOptions rows})
assembly_sites(d) ==
    SelectSeq(SiteOrder,
              LAMBDA site : \E i \in 1..Len(d.AssemblyOptions) :
                                d.AssemblyOptions[i].AssemblySiteID = site)

\* Python's None as the value of a control
None == "None"

\* value=assembly_options[0]["value"] if assembly_options else None
InitialSite(d) == IF assembly_sites(d) = <<>> THEN None ELSE assembly_sites(d)[1]

\* build_app: the workbook as loaded, the grid at its defaults, the first scenario and
\* the first of the sorted assembly sites selected, the fee box unticked
Init ==
    /\ data \in Workbooks
    /\ tariff_table = tariff_records_default(data)
    /\ selection = [scenario_value |-> "2025-01-01", assembly_value |-> InitialSite(data),
                    include_fixed |-> FALSE]
    /\ call = NoCall
    /\ memo = NoCall

\* A caller of compute_costs picks the arguments of its next invocation: any scenario
\* value, any site identifier, either fee flag, and override records with any user rate
PickScenario(values) ==
    /\ \E v \in values \ {selection.scenario_value} :
            selection' = [selection EXCEPT !.scenario_value = v]
    /\ call' = NoCall
    /\ UNCHANGED <<data, tariff_table, memo>>

PickSite ==
    /\ \E v \in SiteArgs \ {selection.assembly_value} :
            selection' = [selection EXCEPT !.assembly_value = v]
    /\ call' = NoCall
    /\ UNCHANGED <<data, tariff_table, memo>>

PickFeeFlag ==
    /\ selection' = [selection EXCEPT !.include_fixed = ~@]
    /\ call' = NoCall
    /\ UNCHANGED <<data, tariff_table, memo>>

PickRecords(cells) ==
    /\ \E i \in 1..Len(tariff_table), c \in cells :
            /\ tariff_table[i].UserRate_pct # c
            /\ tariff_table' = [tariff_table EXCEPT ![i].UserRate_pct = c]
    /\ call' = NoCall
    /\ UNCHANGED <<data, selection, memo>>

\* The controls of the page.  scenario-radio: one of the scenario options
SelectScenario ==
    /\ \E v \in ScenarioDates \ {selection.scenario_value} :
            selection' = [selection EXCEPT !.scenario_value = v]
    /\ call' = NoCall
    /\ UNCHANGED <<data, tariff_table, memo>>

\* assembly-site-radio: one of the sites of AssemblyOptions
SelectAssemblySite ==
    /\ \E i \in 1..Len(assembly_sites(data)) :
            /\ assembly_sites(data)[i] # selection.assembly_value
            /\ selection' = [selection EXCEPT !.assembly_value = assembly_sites(data)[i]]
    /\ call' = NoCall
    /\ UNCHANGED <<data, tariff_table, memo>>

\* fixed-fee-checkbox
ToggleFixedFees ==
    /\ selection' = [selection EXCEPT !.include_fixed = ~@]
    /\ call' = NoCall
    /\ UNCHANGED <<data, tariff_table, memo>>

\* tariff-input-table is editable in its four columns: what the user may put in a cell
MaxEdits == 2

GridColumns == {"ComponentClass", "OriginCountry", "DefaultRate_pct", "UserRate_pct"}

GridCells(column) ==
    CASE column = "ComponentClass" -> {"Housing"}
      [] column = "OriginCountry" -> {"Switzerland"}
      [] column = "DefaultRate_pct" -> {NumCell(50, 1)}
      [] column = "UserRate_pct" -> {NumCell(10, 1)}

\* the cells of the grid that differ from the defaults
EditedCells(table, defaults) ==
    {ic \in (1..Len(table)) \X GridColumns : table[ic[1]][ic[2]] # defaults[ic[1]][ic[2]]}

\* the user edits one cell of the grid, at most MaxEdits cells away from the defaults
EditTariffTable ==
    /\ \E i \in 1..Len(tariff_table), column \in GridColumns :
        \E c \in GridCells(column) \cup {tariff_records_default(data)[i][column]} :
            /\ tariff_table[i][column] # c
            /\ Cardinality(EditedCells([tariff_table EXCEPT ![i][column] = c],
                                       tariff_records_default(data))) <= MaxEdits
            /\ tariff_table' = [tariff_table EXCEPT ![i][column] = c]
    /\ call' = NoCall
    /\ UNCHANGED <<data, selection, memo>>

\* reset_tariff_overrides: the grid returns to the defaults
ResetOverrides ==
    /\ tariff_table # tariff_records_default(data)
    /\ tariff_table' = tariff_records_default(data)
    /\ call' = NoCall
    /\ UNCHANGED <<data, selection, memo>>

(***************************************************************************)
(* The objects of one invocation of compute_costs.  store holds the value  *)
(* of every object, ref the object each name refers to, written the        *)
(* objects a statement assigned into or appended to.  The caller's objects *)
(* are the list of records and the frames of the workbook (data[sheet] is  *)
(* the object named sheet); an object the function creates is named after  *)
(* the line that creates it, and a line of the loop body names the object  *)
(* of its latest iteration.  A dict held in a list is part of the list.    *)
(***************************************************************************)
CallerObjects(d) == DOMAIN d \cup {"tariff_records"}

\* the objects at entry: what the caller passed, under the names of the parameters
Arguments(d, tariff_records) ==
    [store |-> [o \in CallerObjects(d) |->
                    IF o = "tariff_records" THEN tariff_records ELSE d[o]],
     ref |-> [name \in {"tariff_records"} |-> "tariff_records"],
     written |-> {}]

\* name = an expression that builds a new object (pd.DataFrame(...), set_index,
\* rename, copy, merge, astype, [[columns]], a list or dict display)
Bind(st, name, object, value) ==
    [store |-> (object :> value) @@ st.store,
     ref |-> (name :> object) @@ st.ref,
     written |-> st.written]

\* name = an expression that denotes an existing object (a parameter, data[sheet])
Alias(st, name, object) ==
    [store |-> st.store, ref |-> (name :> object) @@ st.ref, written |-> st.written]

\* name[column] = values: the column is assigned in the frame the name refers to
SetColumn(st, name, column, values) ==
    LET frame == st.store[st.ref[name]]
    IN  [store |-> [st.store EXCEPT ![st.ref[name]] =
                        [i \in 1..Len(frame) |-> [frame[i] EXCEPT ![column] = values[i]]]],
         ref |-> st.ref,
         written |-> st.written \cup {st.ref[name]}]

\* entry[key] = value for entries of the list the name refers to
SetItems(st, name, items) ==
    [store |-> [st.store EXCEPT ![st.ref[name]] = items],
     ref |-> st.ref,
     written |-> st.written \cup {st.ref[name]}]

\* name.append(item) for each item, in order; without an item no append runs
Extend(st, name, items) ==
    IF items = <<>>
    THEN st
    ELSE [store |-> [st.store EXCEPT ![st.ref[name]] = @ \o items],
          ref |-> st.ref,
          written |-> st.written \cup {st.ref[name]}]

\* pd.to_numeric(..., errors="coerce") as a cell of the float column it returns
Coerced(c) == NumCell(to_numeric(c)[1], to_numeric(c)[2])

\* if not tariff_inputs.empty: both rate columns of tariff_inputs are assigned
CoerceRates(st) ==
    LET tariff_inputs == st.store[st.ref["tariff_inputs"]]
        rows == 1..Len(tariff_inputs)
    IN  IF tariff_inputs = <<>>
        THEN st
        ELSE SetColumn(SetColumn(st, "tariff_inputs", "UserRate_pct",
                                 [i \in rows |-> Coerced(tariff_inputs[i].UserRate_pct)]),
                       "tariff_inputs", "DefaultRate_pct",
                       [i \in rows |-> Coerced(tariff_inputs[i].DefaultRate_pct)])

\* fx_rates and sites: a series and a frame indexed anew
IndexFrames(st) ==
    Bind(Bind(st, "fx_rates", "series@198", st.store["FX"]),
         "sites", "frame@200", st.store["Sites"])

\* origin_info, products and components_df are new frames (the value bound at 215 is
\* given with the column name of the rename at 221); assembly_options, logistics_lanes
\* and tariffs_us are the caller's frames; the two result lists start empty
BuildFrames(st) ==
    LET sites == st.store["Sites"]
        a == Bind(st, "origin_info", "frame@207",
                  [i \in 1..Len(sites) |-> [SiteID |-> sites[i].SiteID,
                                            OriginCountry |-> sites[i].Country,
                                            OriginRole |-> sites[i].Role]])
        b == Bind(a, "products", "frame@213", a.store["Products"])
        c == Bind(b, "components_df", "frame@214", b.store["Components"])
        merged == ComponentsDf([Sites |-> c.store["Sites"],
                                Components |-> c.store[c.ref["components_df"]]])
        e == Bind(Bind(c, "components_df", "frame@215", merged),
                  "components_df", "frame@221", merged)
        f == Alias(Alias(Alias(e, "assembly_options", "AssemblyOptions"),
                         "logistics_lanes", "LogisticsLanes"),
                   "tariffs_us", "Tariffs_US")
    IN  Bind(Bind(f, "scenario_results", "list@227", <<>>), "flow_records", "list@228", <<>>)

\* an iteration of "for sku in TARGET_SKUS" that reaches the end of the body, given the
\* record r of what it computed: two lists of its own, the summary row appended, the
\* cost_share written into the entries that are kept (none when every entry is
\* skipped by the continue of line 371), the edges that are emitted appended
Iteration(st, r) ==
    LET entries == r.component_flow_entries
        a == Bind(Bind(st, "component_leads", "list@258", <<>>),
                  "component_flow_entries", "list@259", <<>>)
        b == Extend(Extend(a, "component_leads", r.component_leads),
                    "component_flow_entries", entries)
        c == Extend(b, "scenario_results", <<r.row>>)
        e == IF \A i \in 1..Len(entries) : Le(entries[i].cost_value, Zero)
             THEN c
             ELSE SetItems(c, "component_flow_entries",
                           [i \in 1..Len(entries) |->
                                IF Le(entries[i].cost_value, Zero)
                                THEN entries[i]
                                ELSE WithShare(entries[i], r.row.LandedCost_CHF)])
    IN  Extend(e, "flow_records", r.flows)

RECURSIVE Iterations(_, _)
Iterations(st, rollups) ==
    IF rollups = <<>> THEN st ELSE Iterations(Iteration(st, Head(rollups)), Tail(rollups))

\* the 13 columns of breakdown_df: those of a summary row without SKU
BreakdownRow(row) ==
    [ScenarioDate |-> row.ScenarioDate, AssemblySite |-> row.AssemblySite,
     SKU_Display |-> row.SKU_Display, MaterialCost_CHF |-> row.MaterialCost_CHF,
     InboundLogistics_CHF |-> row.InboundLogistics_CHF,
     OutboundLogistics_CHF |-> row.OutboundLogistics_CHF,
     Tariffs_CHF |-> row.Tariffs_CHF, ConversionCost_CHF |-> row.ConversionCost_CHF,
     LandedCost_CHF |-> row.LandedCost_CHF, ListPrice_CHF |-> row.ListPrice_CHF,
     Margin_CHF |-> row.Margin_CHF, MarginPct |-> row.MarginPct,
     LeadTime_days |-> row.LeadTime_days]

\* summary_df is a frame built from scenario_results, breakdown_df a copy of its 13
\* selected columns (an empty frame when summary_df is empty)
Returning(st) ==
    LET summary_df == st.store[st.ref["scenario_results"]]
    IN  Bind(Bind(st, "summary_df", "frame@399", summary_df),
             "breakdown_df", "frame@400",
             [i \in 1..Len(summary_df) |-> BreakdownRow(summary_df[i])])

\* the statements after line 189, for an invocation that returned (or raised) the
\* value returned: the raise at line 202 ends it before any other frame is built
Invocation(st, returned) ==
    LET indexed == IndexFrames(CoerceRates(st))
    IN  IF returned.status # "ok"
        THEN indexed
        ELSE Returning(Iterations(BuildFrames(indexed), returned.rollups))

\* the caller's objects when the invocation has ended, and the objects written
Effects(d, st) ==
    [data |-> [sheet \in DOMAIN d |-> st.store[sheet]],
     tariff_records |-> st.store["tariff_records"],
     written |-> st.written]

\* mutant: tariff_inputs is the list that was passed, not a frame built from it
compute_costs_effects_inplace(d, tariff_records, returned) ==
    Effects(d, Invocation(Alias(Arguments(d, tariff_records),
                                "tariff_inputs", "tariff_records"),
                          returned))

\* what an invocation of compute_costs leaves of the caller's objects: line 189 binds
\* tariff_inputs to a frame built from the records, the other statements follow
compute_costs_effects(d, tariff_records, returned) ==
    Effects(d, Invocation(Bind(Arguments(d, tariff_records),
                               "tariff_inputs", "frame@189", tariff_records),
                          returned))

\* the arguments now chosen are those of the invocation c
SameArguments(c) ==
    /\ c.scenario_date = selection.scenario_value
    /\ c.assembly_site_id = selection.assembly_value
    /\ c.tariff_records = tariff_table
    /\ c.include_fixed_fees = selection.include_fixed

\* one invocation of compute_costs with the arguments the caller picked
CallComputeCosts ==
    /\ call = NoCall
    /\ call' = [fn |-> "compute_costs",
                scenario_date |-> selection.scenario_value,
                assembly_site_id |-> selection.assembly_value,
                tariff_records |-> tariff_table,
                include_fixed_fees |-> selection.include_fixed,
                result |-> compute_costs(data, selection.scenario_value,
                                         selection.assembly_value, tariff_table,
                                         selection.include_fixed)]
    /\ data' = compute_costs_effects(data, tariff_table, call'.result).data
    /\ tariff_table' = compute_costs_effects(data, tariff_table, call'.result).tariff_records
    /\ memo' = IF memo.fn = "compute_costs" /\ ~SameArguments(memo)
               THEN [memo EXCEPT !.intervening = TRUE]
               ELSE memo
    /\ UNCHANGED selection

\* build_map on the flow list an invocation returned: it fills and clips the shares in
\* a frame of its own
CallBuildMap ==
    /\ call.fn = "compute_costs"
    /\ call.result.status = "ok"
    /\ call' = [fn |-> "build_map",
                flow_records |-> call.result.flows,
                result |-> [i \in 1..Len(call.result.flows) |->
                                build_map_share(call.result.flows[i].cost_share)]]
    /\ UNCHANGED <<data, tariff_table, selection, memo>>

Next ==
    \/ PickScenario(ScenarioDates)
    \/ PickSite
    \/ PickFeeFlag
    \/ PickRecords(UserCells)
    \/ CallComputeCosts
    \/ CallBuildMap

Spec == Init /\ [][Next]_vars

(***************************************************************************)
(* A session that also remembers an earlier invocation (history variable   *)
(* memo), to compare a later invocation with the same arguments against.   *)
(***************************************************************************)
SessionCells == {NoneCell, NumCell(10, 1)}

Remembered(c) ==
    [fn |-> c.fn, scenario_date |-> c.scenario_date,
     assembly_site_id |-> c.assembly_site_id, tariff_records |-> c.tariff_records,
     include_fixed_fees |-> c.include_fixed_fees, result |-> c.result,
     intervening |-> FALSE]

Remember ==
    /\ call.fn = "compute_costs"
    /\ memo # Remembered(call)
    /\ memo' = Remembered(call)
    /\ UNCHANGED <<data, tariff_table, selection, call>>

InitSession ==
    /\ data = BaseData
    /\ tariff_table = tariff_records_default(data)
    /\ selection = [scenario_value |-> "2025-01-01", assembly_value |-> InitialSite(data),
                    include_fixed |-> FALSE]
    /\ call = NoCall
    /\ memo = NoCall

NextSession ==
    \/ PickScenario(ScenarioDates \cup ScenarioStrs)
    \/ PickSite
    \/ PickFeeFlag
    \/ PickRecords(SessionCells)
    \/ CallComputeCosts
    \/ Remember

SpecSession == InitSession /\ [][NextSession]_vars

(***************************************************************************)
(* The tariff resolver on its own: override tables and US schedules of a   *)
(* few rows, queried for a key and a scenario date.                        *)
(***************************************************************************)
MaxOverrideRows == 2
MaxScheduleRows == 2

RECURSIVE SeqsUpTo(_, _)
\* the sequences over S of length at most k
SeqsUpTo(S, k) ==
    IF k = 0 THEN {<<>>}
    ELSE LET P == SeqsUpTo(S, k - 1) IN P \cup {Append(q, x) : q \in P, x \in S}

\* rows of an override table: every rate combination for (Motor, China), one other key
OverrideRowChoices ==
    {[ComponentClass |-> "Motor", OriginCountry |-> "China",
      DefaultRate_pct |-> dflt, UserRate_pct |-> user] :
        dflt \in {NumCell(0, 0), NumCell(25, 1)},
        user \in {NoneCell, NumCell(-10, 1), NumCell(150, 1)}}
    \cup {[ComponentClass |-> "FinalAssembly", OriginCountry |-> "Mexico",
           DefaultRate_pct |-> NumCell(0, 0), UserRate_pct |-> NumCell(30, 1)]}

ScheduleRowChoices ==
    {[ScenarioDate |-> "2025-01-01", ComponentClass |-> "Motor",
      OriginCountry |-> "China", US_AdValoremTariff_pct |-> NaN],
     [ScenarioDate |-> "2025-01-01", ComponentClass |-> "Motor",
      OriginCountry |-> "China", US_AdValoremTariff_pct |-> N(7)],
     [ScenarioDate |-> "2025-06-01", ComponentClass |-> "Motor",
      OriginCountry |-> "China", US_AdValoremTariff_pct |-> N(7)],
     [ScenarioDate |-> "2025-01-01", ComponentClass |-> "FinalAssembly",
      OriginCountry |-> "Mexico", US_AdValoremTariff_pct |-> N(7)]}

QueryKeys ==
    {[ComponentClass |-> "Motor", OriginCountry |-> "China"],
     [ComponentClass |-> "FinalAssembly", OriginCountry |-> "Mexico"]}

InitTariff ==
    /\ \E sched \in SeqsUpTo(ScheduleRowChoices, MaxScheduleRows) :
            data = [BaseData EXCEPT !.Tariffs_US = sched]
    /\ tariff_table \in SeqsUpTo(OverrideRowChoices, MaxOverrideRows)
    /\ selection = [scenario_value |-> "2025-01-01", assembly_value |-> "PLANT_US_MI",
                    include_fixed |-> FALSE]
    /\ call = NoCall
    /\ memo = NoCall

\* one invocation of compute_tariff_rate on the coerced override frame
CallComputeTariffRate ==
    /\ \E k \in QueryKeys, scenario_date \in ScenarioDates \cup ScenarioStrs :
            call' = [fn |-> "compute_tariff_rate",
                     component_class |-> k.ComponentClass,
                     origin_country |-> k.OriginCountry,
                     scenario_date |-> scenario_date,
                     tariff_inputs |-> TariffInputsFrame(tariff_table),
                     result |-> compute_tariff_rate(k.ComponentClass, k.OriginCountry,
                                                    scenario_date,
                                                    TariffInputsFrame(tariff_table),
                                                    data.Tariffs_US)]
    /\ UNCHANGED <<data, tariff_table, selection, memo>>

NextTariff == CallComputeTariffRate

SpecTariff == InitTariff /\ [][NextTariff]_vars

(***************************************************************************)
(* The currency converters on their own: FX tables with any of the rows    *)
(* USD, CHF, CNY absent, zero or missing, and amounts of either sign.      *)
(***************************************************************************)
Absent == <<-1, 0>>

FxTable(usd, chf, cny) ==
    (IF usd = Absent THEN <<>> ELSE <<[Currency |-> "USD", USD_per_unit |-> usd]>>)
    \o (IF chf = Absent THEN <<>> ELSE <<[Currency |-> "CHF", USD_per_unit |-> chf]>>)
    \o (IF cny = Absent THEN <<>> ELSE <<[Currency |-> "CNY", USD_per_unit |-> cny]>>)

FxTables ==
    {FxTable(usd, chf, cny) :
        usd \in {Absent, One, N(2), NaN},
        chf \in {Absent, Zero, <<5, 4>>, NaN},
        cny \in {Absent, <<1, 8>>, NaN}}

Amounts == {NaN, Zero, N(100), N(-40)}

Currencies == {"USD", "CHF", "CNY", "RSD", "MXN"}

InitFX ==
    /\ \E fx \in FxTables : data = [BaseData EXCEPT !.FX = fx]
    /\ tariff_table = <<>>
    /\ selection = [scenario_value |-> "2025-01-01", assembly_value |-> "PLANT_US_MI",
                    include_fixed |-> FALSE]
    /\ call = NoCall
    /\ memo = NoCall

CallUsdToChf ==
    /\ \E amount \in Amounts :
            call' = [fn |-> "usd_to_chf", amount |-> amount, currency |-> "USD",
                     result |-> usd_to_chf(amount, data.FX)]
    /\ UNCHANGED <<data, tariff_table, selection, memo>>

CallLocalToChf ==
    /\ \E amount \in Amounts, currency \in Currencies :
            call' = [fn |-> "local_to_chf", amount |-> amount, currency |-> currency,
                     result |-> local_to_chf(amount, currency, data.FX)]
    /\ UNCHANGED <<data, tariff_table, selection, memo>>

NextFX ==
    \/ CallUsdToChf
    \/ CallLocalToChf

SpecFX == InitFX /\ [][NextFX]_vars

(***************************************************************************)
(* Properties of the tariff resolver (checked under SpecTariff)            *)
(***************************************************************************)
IsTariffCall == call.fn = "compute_tariff_rate"

\* the rows of the call's tables that carry the queried key (and date)
KeyRows ==
    Candidate(call.tariff_inputs, call.component_class, call.origin_country)

DateKeyRows ==
    ScenarioMatch(data.Tariffs_US, call.scenario_date, call.component_class,
                  call.origin_country)

SomeRow(rows, P(_)) == \E i \in 1..Len(rows) : P(rows[i])

\* C1 (as stated): whenever some override row for the queried key carries a numeric
\* UserRate_pct, the result is that rate / 100 with provenance "Override", whatever the
\* schedule and the default rates hold.
C1_AnyUserRateWins ==
    (IsTariffCall /\ SomeRow(KeyRows, LAMBDA r : notna(r.UserRate_pct)))
        => /\ call.result.source = "Override"
           /\ SomeRow(KeyRows, LAMBDA r : /\ notna(r.UserRate_pct)
                                          /\ call.result.rate =
                                                Div(r.UserRate_pct, <<Hundred, 1>>))

\* C1 (first row only): when the first override row for the queried key carries a
\* numeric UserRate_pct, the result is that rate / 100 with provenance "Override",
\* whatever the schedule and the default rates hold.
C1_FirstRowUserRateWins ==
    (IsTariffCall /\ KeyRows # <<>> /\ notna(KeyRows[1].UserRate_pct))
        => call.result = [rate |-> Div(KeyRows[1].UserRate_pct, <<Hundred, 1>>),
                          source |-> "Override"]

\* C2: with no numeric user rate and no numeric default rate in any override row for
\* the key, and no numeric rate in any schedule row for the date and key, the result is
\* exactly (0.0, "None").
C2_NoneWhenNothingApplies ==
    (/\ IsTariffCall
     /\ ~SomeRow(KeyRows, LAMBDA r : notna(r.UserRate_pct))
     /\ ~SomeRow(DateKeyRows, LAMBDA r : notna(r.US_AdValoremTariff_pct))
     /\ ~SomeRow(KeyRows, LAMBDA r : notna(r.DefaultRate_pct)))
        => call.result = [rate |-> Zero, source |-> "None"]

\* C2 witness: rows for the key exist in both tables, none with a number, and the
\* resolver has answered (0.0, "None")
C2_Witness ==
    /\ IsTariffCall
    /\ KeyRows # <<>>
    /\ DateKeyRows # <<>>
    /\ ~SomeRow(KeyRows, LAMBDA r : notna(r.UserRate_pct) \/ notna(r.DefaultRate_pct))
    /\ ~SomeRow(DateKeyRows, LAMBDA r : notna(r.US_AdValoremTariff_pct))
    /\ call.result.source = "None"

\* the percentage the answer was taken from, by its provenance
SelectedPct ==
    CASE call.result.source = "Override" -> KeyRows[1].UserRate_pct
      [] call.result.source = "Default" -> KeyRows[1].DefaultRate_pct
      [] call.result.source = "None" -> Zero
      [] OTHER -> DateKeyRows[1].US_AdValoremTariff_pct

InUnitInterval(x) == Ge(x, Zero) /\ Le(x, One)

\* C9 (as stated): the resolved rate always lies in [0, 1].
C9_RateInUnitInterval ==
    IsTariffCall => InUnitInterval(call.result.rate)

\* C9 (amended): the resolved rate is the selected percentage divided by 100, with no
\* clamping; it lies in [0, 1] exactly when that percentage lies in [0, 100].
C9_RateIsPctOver100 ==
    IsTariffCall
        => /\ call.result.rate = Div(SelectedPct, <<Hundred, 1>>)
           /\ InUnitInterval(call.result.rate)
                <=> (Ge(SelectedPct, Zero) /\ Le(SelectedPct, <<Hundred, 1>>))

\* C9 witness: an override of 150 percent resolved to the rate 3/2
C9_Witness ==
    /\ IsTariffCall
    /\ call.result.source = "Override"
    /\ call.result.rate = <<3, 2>>

(***************************************************************************)
(* Properties of the currency converters (checked under SpecFX)            *)
(***************************************************************************)
HasRate(currency) == \E i \in 1..Len(data.FX) : data.FX[i].Currency = currency

RateOf(currency) ==
    data.FX[CHOOSE i \in 1..Len(data.FX) : data.FX[i].Currency = currency].USD_per_unit

IsAbsentCodeCall == call.fn = "local_to_chf" /\ ~HasRate(call.currency)

\* C8 (as stated): a code absent from the FX table converts as if its rate were 1.0,
\* whatever the table holds for USD, and usd_to_chf without a CHF row returns the
\* amount unchanged.
C8_AbsentCodeIsRateOne ==
    /\ IsAbsentCodeCall => call.result = usd_to_chf(call.amount, data.FX)
    /\ (call.fn = "usd_to_chf" /\ ~HasRate("CHF")) => call.result = call.amount

\* C8 (amended): a code absent from the FX table converts at the USD row's rate, and
\* at 1.0 only when the table has no USD row; usd_to_chf without a CHF row returns a
\* present amount unchanged and 0.0 for a missing amount.
C8_AbsentCodeUsesUsdRow ==
    /\ (IsAbsentCodeCall /\ notna(call.amount) /\ HasRate("USD"))
            => call.result = usd_to_chf(Mul(call.amount, RateOf("USD")), data.FX)
    /\ (IsAbsentCodeCall /\ ~HasRate("USD"))
            => call.result = usd_to_chf(call.amount, data.FX)
    /\ (IsAbsentCodeCall /\ isna(call.amount)) => call.result = Zero
    /\ (call.fn = "usd_to_chf" /\ ~HasRate("CHF"))
            => call.result = IF isna(call.amount) THEN Zero ELSE call.amount

\* C8 witness: 100 units of a code the table lacks, a USD row at 2 and a CHF row at
\* 5/4: the answer is 160, not the 80 that a rate of 1.0 would give
C8_Witness ==
    /\ IsAbsentCodeCall
    /\ call.amount = N(100)
    /\ HasRate("USD") /\ RateOf("USD") = N(2)
    /\ HasRate("CHF") /\ RateOf("CHF") = <<5, 4>>
    /\ call.result = N(160)
    /\ usd_to_chf(call.amount, data.FX) = N(80)

(***************************************************************************)
(* Properties of compute_costs (checked under Spec)                        *)
(***************************************************************************)
IsCostsCall == call.fn = "compute_costs"

SiteIsKnown == \E i \in 1..Len(data.Sites) : data.Sites[i].SiteID = call.assembly_site_id

\* C3: an assembly_site_id that is no SiteID of the Sites table makes compute_costs
\* fail with ValueError, whatever the scenario date, the override records and the fee
\* flag; no summary row and no flow edge is returned.
C3_UnknownSiteRaises ==
    (IsCostsCall /\ ~SiteIsKnown)
        => /\ call.result.status = "ValueError"
           /\ call.result.summary = <<>>
           /\ call.result.flows = <<>>

\* C3 witness: the unknown site was passed with the later scenario date, fixed fees on
\* and an edited override record, and the call failed
C3_Witness ==
    /\ IsCostsCall
    /\ call.assembly_site_id = "PLANT_XX"
    /\ call.scenario_date = "2025-06-01"
    /\ call.include_fixed_fees
    /\ \E i \in 1..Len(call.tariff_records) : call.tariff_records[i].UserRate_pct.t = "num"
    /\ call.result.status = "ValueError"

\* rows of a sheet selected by a predicate
Rows(sheet, P(_)) == SelectSeq(sheet, P)

\* the target SKUs that have a Products row, an AssemblyOptions row at the site of the
\* call and at least one BOM row, in the order of TARGET_SKUS
CostedSkus ==
    SelectSeq(TARGET_SKUS,
              LAMBDA sku :
                /\ Rows(data.Products, LAMBDA q : q.SKU = sku) # <<>>
                /\ Rows(data.AssemblyOptions,
                        LAMBDA o : o.SKU = sku /\ o.AssemblySiteID = call.assembly_site_id)
                        # <<>>
                /\ Rows(data.BOM, LAMBDA b : b.ParentSKU = sku) # <<>>)

AssemblyCountry ==
    data.Sites[CHOOSE i \in 1..Len(data.Sites) :
                    data.Sites[i].SiteID = call.assembly_site_id].Country

HasLane(from_country, to_country) ==
    \E i \in 1..Len(data.LogisticsLanes) :
        /\ data.LogisticsLanes[i].FromCountry = from_country
        /\ data.LogisticsLanes[i].ToCountry = to_country

\* completion: with an assembly_site_id of the Sites table compute_costs returns,
\* whatever else is missing: the summary has one row for each target SKU that has a
\* product, an assembly option at the site and BOM rows (none for the others), an
\* absent outbound lane costs 0 with lead time 0, and a BOM line without an inbound
\* lane has lead time 0.
C4_KnownSiteCompletes ==
    (IsCostsCall /\ SiteIsKnown)
        => /\ call.result.status = "ok"
           /\ [i \in 1..Len(call.result.summary) |-> call.result.summary[i].SKU] = CostedSkus
           /\ \A i \in 1..Len(call.result.rollups) :
                LET r == call.result.rollups[i]
                IN  /\ ~HasLane(AssemblyCountry, US)
                        => r.row.OutboundLogistics_CHF = Zero /\ r.outbound_lead = Zero
                    /\ \A j \in 1..Len(r.component_flow_entries) :
                        ~HasLane(r.component_flow_entries[j].from_country, AssemblyCountry)
                            => r.component_leads[j] = Zero

\* the workbook has no lane out of Mexico, the Mexican plant was costed and the call
\* returned rows with outbound logistics 0
C4_Witness ==
    /\ IsCostsCall
    /\ call.assembly_site_id = "PLANT_MX_NL"
    /\ ~HasLane("Mexico", US)
    /\ call.result.status = "ok"
    /\ Len(call.result.summary) = 2
    /\ call.result.summary[1].OutboundLogistics_CHF = Zero

\* the USD_per_unit of the CHF row of the FX sheet, 1.0 without such a row
ChfRate ==
    IF \E i \in 1..Len(data.FX) : data.FX[i].Currency = "CHF"
    THEN data.FX[CHOOSE i \in 1..Len(data.FX) : data.FX[i].Currency = "CHF"].USD_per_unit
    ELSE One

\* the amounts in CHF of a summary row
ChfAmounts(row) ==
    {row.MaterialCost_CHF, row.InboundLogistics_CHF, row.OutboundLogistics_CHF,
     row.Tariffs_CHF, row.ConversionCost_CHF, row.LandedCost_CHF, row.ListPrice_CHF,
     row.Margin_CHF}

\* every amount in CHF of the rows and edges an invocation returned is a number
AmountsAreNumbers ==
    /\ \A i \in 1..Len(call.result.summary) :
            \A x \in ChfAmounts(call.result.summary[i]) : IsFinite(x)
    /\ \A i \in 1..Len(call.result.flows) : IsFinite(call.result.flows[i].cost_value)

\* C4 (as stated): with an assembly_site_id of the Sites table compute_costs completes
\* whatever else is missing, and each gap contributes a zero or a pass-through value
\* instead of a failure: the rows are those of the SKUs that can be costed, an absent
\* lane costs 0 with lead time 0, and every amount in CHF that is returned is a number
\* (a missing item adds 0 to it, or leaves it as it was).
C4_EveryGapZeroOrPassThrough ==
    /\ C4_KnownSiteCompletes
    /\ (IsCostsCall /\ SiteIsKnown) => AmountsAreNumbers

\* what the code guarantees: the invocation completes with the rows of the SKUs that
\* can be costed, and every amount in CHF is a number when the CHF rate is a number
C4_NumbersForNumericChfRate ==
    /\ C4_KnownSiteCompletes
    /\ (IsCostsCall /\ SiteIsKnown /\ notna(ChfRate)) => AmountsAreNumbers

\* the Swiss site was costed with a CHF row whose rate is NaN: the invocation
\* completed, and the material cost and the landed cost of its first row are NaN
C4_NaNAmountsReached ==
    /\ IsCostsCall
    /\ SiteIsKnown
    /\ call.assembly_site_id = "BU_CH_MUR"
    /\ isna(ChfRate)
    /\ call.result.status = "ok"
    /\ call.result.summary # <<>>
    /\ call.result.summary[1].MaterialCost_CHF = NaN
    /\ call.result.summary[1].LandedCost_CHF = NaN

\* the cost_value of the edges of a rollup that were emitted, and of those dropped
EmittedValue(r) == SumSeq([i \in 1..Len(r.flows) |-> r.flows[i].cost_value])

FilteredValue(r) ==
    LET dropped == SelectSeq(r.component_flow_entries, LAMBDA e : Le(e.cost_value, Zero))
    IN  Add(SumSeq([i \in 1..Len(dropped) |-> dropped[i].cost_value]),
            IF Gt(r.final_flow_value, Zero) THEN Zero ELSE r.final_flow_value)

\* C6 (as stated): the cost_value of a SKU's emitted component edges plus its
\* finished-good edge equals LandedCost_CHF minus the cost_value of the edges that
\* were filtered out (those with cost_value <= 0).
C6_EdgesSumToLandedCost ==
    IsCostsCall
        => \A i \in 1..Len(call.result.rollups) :
                LET r == call.result.rollups[i]
                IN  EmittedValue(r) = Sub(r.row.LandedCost_CHF, FilteredValue(r))

\* C6 (amended): LandedCost_CHF is ConversionCost_CHF plus the cost_value of the SKU's
\* emitted edges plus the cost_value of the edges that were filtered out (a BOM line
\* with cost_value <= 0, the finished-good leg with a value not > 0): the conversion
\* cost is on no edge.
C6_EdgesSumToLandedCostLessConversion ==
    IsCostsCall
        => \A i \in 1..Len(call.result.rollups) :
                LET r == call.result.rollups[i]
                IN  r.row.LandedCost_CHF =
                        Add(Add(r.row.ConversionCost_CHF, EmittedValue(r)),
                            FilteredValue(r))

\* C6 witness: a rollup with a conversion cost, an emitted edge and a component edge
\* that was dropped for its negative value
C6_Witness ==
    /\ IsCostsCall
    /\ \E i \in 1..Len(call.result.rollups) :
            LET r == call.result.rollups[i]
            IN  /\ Gt(r.row.ConversionCost_CHF, Zero)
                /\ r.flows # <<>>
                /\ \E j \in 1..Len(r.component_flow_entries) :
                        Lt(r.component_flow_entries[j].cost_value, Zero)

\* C7: LeadTime_days is the greatest inbound lead time of the SKU's BOM lines (0 when
\* there is no line) plus the outbound lead time; an inbound lead time is the first
\* matching lane's LeadTime_days, 0 without a lane, and so is the outbound one.
C7_LeadTimeIsMaxPlusOutbound ==
    IsCostsCall
        => \A i \in 1..Len(call.result.rollups) :
                LET r == call.result.rollups[i]
                    lead(from_country, to_country) ==
                        IF HasLane(from_country, to_country)
                        THEN LaneMatch(data.LogisticsLanes, from_country,
                                       to_country)[1].LeadTime_days
                        ELSE Zero
                    leads == r.component_leads
                IN  /\ \A j \in 1..Len(leads) :
                            leads[j] = lead(r.component_flow_entries[j].from_country,
                                            AssemblyCountry)
                    /\ r.outbound_lead = lead(AssemblyCountry, US)
                    /\ \/ /\ leads = <<>>
                          /\ r.row.LeadTime_days = r.outbound_lead
                       \/ \E j \in 1..Len(leads) :
                            /\ \A k \in 1..Len(leads) : ~Gt(leads[k], leads[j])
                            /\ r.row.LeadTime_days = Add(leads[j], r.outbound_lead)

\* C7 witness: inbound lead times 5 and 12 with outbound 3 gave 15
C7_Witness ==
    /\ IsCostsCall
    /\ \E i \in 1..Len(call.result.rollups) :
            LET r == call.result.rollups[i]
            IN  /\ r.component_leads = <<N(5), N(12)>>
                /\ r.outbound_lead = N(3)
                /\ r.row.LeadTime_days = N(15)

\* the rollup of the SKU of an edge
RollupOf(sku) ==
    call.result.rollups[CHOOSE i \in 1..Len(call.result.rollups) :
                            call.result.rollups[i].row.SKU = sku]

\* C10 (as stated): every edge returned by compute_costs has cost_share >= 0.
C10_ShareNonNegative ==
    IsCostsCall
        => \A i \in 1..Len(call.result.flows) : Ge(call.result.flows[i].cost_share, Zero)

\* C10 (amended): compute_costs does not clamp: the cost_share of an edge is >= 0
\* exactly when the landed cost of its SKU is >= 0.  The clamp is build_map's, on its
\* own frame: there a missing share becomes 0, a negative one 0, any other is kept.
C10_ShareClampedOnlyInMap ==
    /\ IsCostsCall
        => \A i \in 1..Len(call.result.flows) :
                LET e == call.result.flows[i]
                IN  Ge(e.cost_share, Zero) <=> Ge(RollupOf(e.SKU).row.LandedCost_CHF, Zero)
    /\ call.fn = "build_map"
        => \A i \in 1..Len(call.flow_records) :
                LET share == call.flow_records[i].cost_share
                IN  /\ Ge(call.result[i], Zero)
                    /\ call.result[i] = IF Gt(share, Zero) THEN share ELSE Zero

\* C10 witness: build_map was handed an edge with a negative share
C10_Witness ==
    /\ call.fn = "build_map"
    /\ \E i \in 1..Len(call.flow_records) :
            /\ Lt(call.flow_records[i].cost_share, Zero)
            /\ call.result[i] = Zero

(***************************************************************************)
(* Statelessness of compute_costs (checked under SpecSession)              *)
(***************************************************************************)
\* C5: an invocation of compute_costs assigns into and appends to objects of its own
\* only, so that the workbook and the records it was passed are afterwards as they
\* were, and it returns the summary rows and flow edges that a remembered earlier
\* invocation with the same arguments returned, whatever was invoked between.
C5_DeterministicAndStateless ==
    [][(call.fn = "none" /\ call'.fn = "compute_costs")
            => /\ compute_costs_effects(data, tariff_table, call'.result).written
                    \cap CallerObjects(data) = {}
               /\ data' = data
               /\ tariff_table' = tariff_table
               /\ (memo.fn = "compute_costs" /\ SameArguments(memo))
                    => /\ call'.result.status = memo.result.status
                       /\ call'.result.summary = memo.result.summary
                       /\ call'.result.flows = memo.result.flows]_vars

\* C5 witness: the arguments of a remembered invocation were passed again after an
\* invocation with other arguments, and the same rows and edges came back; the records
\* hold a cell that is not a number, which the coercion of line 191 turns into NaN in
\* the frame built from them, and the invocation wrote the frame and its own lists
C5_Witness ==
    /\ IsCostsCall
    /\ memo.fn = "compute_costs"
    /\ memo.intervening
    /\ memo.scenario_date = call.scenario_date
    /\ memo.assembly_site_id = call.assembly_site_id
    /\ memo.tariff_records = call.tariff_records
    /\ memo.include_fixed_fees = call.include_fixed_fees
    /\ call.result.summary # <<>>
    /\ call.result.summary = memo.result.summary
    /\ call.result.flows = memo.result.flows
    /\ \E i \in 1..Len(call.tariff_records) : call.tariff_records[i].UserRate_pct.t = "none"
    /\ tariff_table = call.tariff_records
    /\ compute_costs_effects(data, call.tariff_records, call.result).written
            = {"frame@189", "list@227", "list@228", "list@258", "list@259"}

(***************************************************************************)
(* Yield (checked under Spec)                                              *)
(***************************************************************************)
\* the assembly option row compute_costs uses for a SKU at the site of the call
OptionRowOf(sku) ==
    SelectSeq(data.AssemblyOptions,
              LAMBDA o : o.SKU = sku /\ o.AssemblySiteID = call.assembly_site_id)[1]

\* material and inbound logistics totals of a SKU when every BOM line is costed with
\* the quantity Qty / yield
TotalsAtYield(sku, yield) ==
    LET lines == BomComponents(data, sku)
        quantity(c) == Div(c.Qty, yield)
    IN  [material |->
            SumSeq([i \in 1..Len(lines) |->
                local_to_chf(Mul(lines[i].BasePrice_local, quantity(lines[i])),
                             COUNTRY_TO_CURRENCY(Origin(data, lines[i]).country),
                             data.FX)]),
         logistics |->
            SumSeq([i \in 1..Len(lines) |->
                LaneLeg(data.LogisticsLanes, Origin(data, lines[i]).country,
                        AssemblyCountry,
                        Mul(quantity(lines[i]), lines[i].UnitWeight_kg),
                        call.include_fixed_fees, data.FX).cost])]

RowAtYield(r, yield) ==
    /\ r.row.MaterialCost_CHF = TotalsAtYield(r.row.SKU, yield).material
    /\ r.row.InboundLogistics_CHF = TotalsAtYield(r.row.SKU, yield).logistics

\* C11 (as stated): every BOM line is costed with the quantity Qty / Yield, and with
\* the declared Qty (Yield taken as 1.0) whenever the option's Yield is zero or
\* missing (NaN).
C11_ZeroOrMissingYieldIsOne ==
    IsCostsCall
        => \A i \in 1..Len(call.result.rollups) :
                LET r == call.result.rollups[i]
                    y == OptionRowOf(r.row.SKU).Yield
                IN  RowAtYield(r, IF y = Zero \/ isna(y) THEN One ELSE y)

\* C11 (zero only): every BOM line is costed with the quantity Qty / Yield, and with
\* the declared Qty when the option's Yield is zero; a NaN Yield is divided by as it is.
C11_ZeroYieldIsOne ==
    IsCostsCall
        => \A i \in 1..Len(call.result.rollups) :
                LET r == call.result.rollups[i]
                    y == OptionRowOf(r.row.SKU).Yield
                IN  RowAtYield(r, IF y = Zero THEN One ELSE y)

\* a rollup whose option has a NaN Yield: the material cost came out as 0
C11_NaNYieldCostsNothing ==
    /\ IsCostsCall
    /\ \E i \in 1..Len(call.result.rollups) :
            LET r == call.result.rollups[i]
            IN  /\ isna(OptionRowOf(r.row.SKU).Yield)
                /\ r.row.MaterialCost_CHF = Zero
                /\ Gt(TotalsAtYield(r.row.SKU, One).material, Zero)

(***************************************************************************)
(* The dashboard callback refresh_dashboard                                *)
(***************************************************************************)
\* build_app: the values of motor-route-radio
MotorRouteSites == {"BU_CH_MUR", "PLANT_US_MI", "PLANT_MX_NL"}

\* comparison_records of one site's result
ComparisonRecords(site_id, result) ==
    [i \in 1..Len(result.summary) |->
        [AssemblySite |-> site_id, SKU |-> result.summary[i].SKU_Display,
         LandedCost_CHF |-> result.summary[i].LandedCost_CHF]]

RECURSIVE ComparisonOver(_, _, _, _, _)
\* the loop "for site_id in assembly_sites": the records, or the exception it raises
ComparisonOver(d, sites, scenario_value, tariff_table_, include_fixed) ==
    IF sites = <<>> THEN [status |-> "ok", records |-> <<>>]
    ELSE LET result == compute_costs(d, scenario_value, Head(sites), tariff_table_,
                                     include_fixed)
         IN  IF result.status # "ok" THEN [status |-> result.status, records |-> <<>>]
             ELSE LET rest == ComparisonOver(d, Tail(sites), scenario_value,
                                             tariff_table_, include_fixed)
                  IN  IF rest.status # "ok" THEN rest
                      ELSE [status |-> "ok",
                            records |-> ComparisonRecords(Head(sites), result)
                                        \o rest.records]

\* what the callback hands back: "neutral" is the empty result of the except branch,
\* "ValueError" an exception that leaves the callback
Outcome(status, summary, comparison, what_if) ==
    [status |-> status, summary |-> summary, comparison |-> comparison,
     what_if |-> what_if]

\* the rest of the callback once base_result and the comparison are there
RefreshWhatIf(d, base_result, comparison, what_if_result) ==
    IF what_if_result.status # "ok"
    THEN Outcome(what_if_result.status, <<>>, <<>>, <<>>)
    ELSE Outcome("ok", base_result.summary, comparison.records, what_if_result.summary)

RefreshComparison(d, base_result, comparison, scenario_value, tariff_table_, include_fixed, motor_route_site) ==
    IF comparison.status # "ok"
    THEN Outcome(comparison.status, <<>>, <<>>, <<>>)
    ELSE RefreshWhatIf(d, base_result, comparison,
                       compute_costs(d, scenario_value, motor_route_site, tariff_table_,
                                     include_fixed))

\* refresh_dashboard: only the first invocation is inside try / except ValueError
refresh_dashboard(d, scenario_value, assembly_value, tariff_table_, include_fixed, motor_route_site) ==
    LET base_result == compute_costs(d, scenario_value, assembly_value, tariff_table_,
                                     include_fixed)
    IN  IF base_result.status = "ValueError"
        THEN Outcome("neutral", <<>>, <<>>, <<>>)
        ELSE RefreshComparison(d, base_result,
                               ComparisonOver(d, assembly_sites(d), scenario_value,
                                              tariff_table_, include_fixed),
                               scenario_value, tariff_table_, include_fixed,
                               motor_route_site)

\* the callback fires with the values of the controls as the browser sends them: the
\* scenario arrives as a str and is passed on as it came
CallRefreshDashboard ==
    /\ call = NoCall
    /\ \E motor_route_site \in MotorRouteSites :
            call' = [fn |-> "refresh_dashboard",
                     scenario_value |-> DeliveredValue(selection.scenario_value),
                     assembly_value |-> selection.assembly_value,
                     tariff_table |-> tariff_table,
                     include_fixed |-> selection.include_fixed,
                     motor_route_site |-> motor_route_site,
                     result |-> refresh_dashboard(data,
                                                  DeliveredValue(selection.scenario_value),
                                                  selection.assembly_value, tariff_table,
                                                  selection.include_fixed,
                                                  motor_route_site)]
    /\ UNCHANGED <<data, tariff_table, selection, memo>>

NextDashboard ==
    \/ SelectScenario
    \/ SelectAssemblySite
    \/ ToggleFixedFees
    \/ EditTariffTable
    \/ ResetOverrides
    \/ CallRefreshDashboard

SpecDashboard == Init /\ [][NextDashboard]_vars

IsRefreshCall == call.fn = "refresh_dashboard"

\* the site identifiers the callback passes to compute_costs
SitesPassed ==
    {call.assembly_value, call.motor_route_site}
        \cup {assembly_sites(data)[i] : i \in 1..Len(assembly_sites(data))}

UnknownSites == {site \in SitesPassed : ~SiteKnown(data.Sites, site)}

\* C12 (as stated): whenever a site identifier that refresh_dashboard passes to
\* compute_costs (the selected site, a comparison site of AssemblyOptions, the
\* motor-route site) is not in the Sites table, the callback returns the neutral
\* result; no ValueError leaves it.
C12_UnknownSiteNeverEscapes ==
    IsRefreshCall
        => /\ call.result.status # "ValueError"
           /\ UnknownSites # {} => call.result.status = "neutral"

\* C12 (selected site only): an unknown selected site gives the neutral result.
C12_UnknownSelectedSiteIsCaught ==
    (IsRefreshCall /\ ~SiteKnown(data.Sites, call.assembly_value))
        => call.result.status = "neutral"

\* an unknown comparison or motor-route site with a known selected site: the
\* ValueError leaves the callback
C12_EscapeReached ==
    /\ IsRefreshCall
    /\ SiteKnown(data.Sites, call.assembly_value)
    /\ UnknownSites # {}
    /\ call.result.status = "ValueError"

(***************************************************************************)
(* Margin (checked under Spec)                                             *)
(***************************************************************************)
ProductRowOf(sku) == SelectSeq(data.Products, LAMBDA q : q.SKU = sku)[1]

\* C13: for every rolled-up SKU the call completes with Margin_CHF = ListPrice_CHF -
\* LandedCost_CHF and MarginPct = Margin_CHF / ListPrice_CHF, except that MarginPct is
\* exactly 0 when ListPrice_CHF is 0; ListPrice_CHF is 0 for a missing list price, for
\* a CHF rate of zero and for a list price of zero at any CHF rate that is a number.
C13_MarginAndMarginPct ==
    IsCostsCall
        => \A i \in 1..Len(call.result.rollups) :
                LET row == call.result.rollups[i].row
                    price == ProductRowOf(row.SKU).ListPrice_USD
                IN  /\ call.result.status = "ok"
                    /\ row.Margin_CHF = Sub(row.ListPrice_CHF, row.LandedCost_CHF)
                    /\ row.ListPrice_CHF = Zero => row.MarginPct = Zero
                    /\ row.ListPrice_CHF # Zero
                        => row.MarginPct = Div(row.Margin_CHF, row.ListPrice_CHF)
                    /\ (isna(price) \/ ChfRate = Zero \/ (price = Zero /\ notna(ChfRate)))
                        => row.ListPrice_CHF = Zero

\* C13 witness: a SKU without a list price was rolled up with a positive landed cost:
\* its margin is negative and its MarginPct 0
C13_Witness ==
    /\ IsCostsCall
    /\ \E i \in 1..Len(call.result.rollups) :
            LET row == call.result.rollups[i].row
            IN  /\ isna(ProductRowOf(row.SKU).ListPrice_USD)
                /\ row.ListPrice_CHF = Zero
                /\ Gt(row.LandedCost_CHF, Zero)
                /\ Lt(row.Margin_CHF, Zero)
                /\ row.MarginPct = Zero

(***************************************************************************)
(* The resolver's tiers over tables with several rows for a key (checked   *)
(* under SpecTariff)                                                       *)
(***************************************************************************)
\* the override rows for the queried key that carry a numeric user rate
UserRateRows == SelectSeq(KeyRows, LAMBDA r : notna(r.UserRate_pct))

\* the schedule rows for the queried date and key that carry a numeric rate
ScheduleRateRows == SelectSeq(DateKeyRows, LAMBDA r : notna(r.US_AdValoremTariff_pct))

\* C14 (as stated): whenever at least one override row for the queried key carries a
\* numeric UserRate_pct, the result is the user rate of the first such row / 100 with
\* provenance "Override", also when an earlier row for the key has no user rate.
C14_OverrideFromAnyRow ==
    (IsTariffCall /\ UserRateRows # <<>>)
        => call.result = [rate |-> Div(UserRateRows[1].UserRate_pct, <<Hundred, 1>>),
                          source |-> "Override"]

\* the override is missed: a later row for the key has a user rate, the first has none
C14_LaterRowIgnored ==
    /\ IsTariffCall
    /\ Len(KeyRows) >= 2
    /\ isna(KeyRows[1].UserRate_pct)
    /\ UserRateRows # <<>>
    /\ call.result.source # "Override"

\* C15 (as stated): with no numeric user rate in any override row for the key and a
\* schedule row for the date and key with a numeric rate, the result is that rate / 100
\* with provenance "Scenario <date>", whatever the default rates hold; the provenance
\* is "Default" (with a numeric default rate / 100) only when no override row for the
\* key has a numeric user rate and no schedule row for the date and key a numeric rate.
C15_ScenarioThenDefault ==
    IsTariffCall
        => /\ (UserRateRows = <<>> /\ ScheduleRateRows # <<>>)
                => call.result =
                    [rate |-> Div(ScheduleRateRows[1].US_AdValoremTariff_pct,
                                  <<Hundred, 1>>),
                     source |-> ScenarioLabel(call.scenario_date)]
           /\ call.result.source = "Default"
                => /\ UserRateRows = <<>>
                   /\ ScheduleRateRows = <<>>
                   /\ SomeRow(KeyRows, LAMBDA r : /\ notna(r.DefaultRate_pct)
                                                  /\ call.result.rate =
                                                        Div(r.DefaultRate_pct,
                                                            <<Hundred, 1>>))

\* C15 (first rows only): the tiers as the first override row for the key and the
\* first schedule row for the date and key decide them.
C15_FirstRowTiers ==
    IsTariffCall
        => LET no_user == KeyRows = <<>> \/ isna(KeyRows[1].UserRate_pct)
               scheduled == /\ DateKeyRows # <<>>
                            /\ notna(DateKeyRows[1].US_AdValoremTariff_pct)
           IN  /\ (no_user /\ scheduled)
                    => call.result =
                        [rate |-> Div(DateKeyRows[1].US_AdValoremTariff_pct,
                                      <<Hundred, 1>>),
                         source |-> ScenarioLabel(call.scenario_date)]
               /\ call.result.source = "Default"
                    <=> (no_user /\ ~scheduled /\ KeyRows # <<>>
                            /\ notna(KeyRows[1].DefaultRate_pct))
               /\ call.result.source = "Default"
                    => call.result.rate = Div(KeyRows[1].DefaultRate_pct, <<Hundred, 1>>)

\* the default tier answered although a later override row for the key has a user rate
C15_DefaultDespiteUserRate ==
    /\ IsTariffCall
    /\ call.result.source = "Default"
    /\ UserRateRows # <<>>

\* the default tier answered although a later schedule row for the date and key has a
\* numeric rate
C15_DefaultDespiteSchedule ==
    /\ IsTariffCall
    /\ call.result.source = "Default"
    /\ UserRateRows = <<>>
    /\ ScheduleRateRows # <<>>

(***************************************************************************)
(* The two tariff events (checked under Spec)                              *)
(***************************************************************************)
\* material and inbound logistics cost of the j-th BOM line of a SKU
LineAmounts(sku, j) ==
    LET c == BomComponents(data, sku)[j]
        quantity == Div(c.Qty, YieldRate(OptionRowOf(sku)))
        origin_country == Origin(data, c).country
    IN  [class |-> c.Class,
         material |-> local_to_chf(Mul(c.BasePrice_local, quantity),
                                   COUNTRY_TO_CURRENCY(origin_country), data.FX),
         logistics |-> LaneLeg(data.LogisticsLanes, origin_country, AssemblyCountry,
                               Mul(quantity, c.UnitWeight_kg), call.include_fixed_fees,
                               data.FX).cost]

\* the tables of the call without the rows of component classes
OnlyFinalAssembly(rows) == SelectSeq(rows, LAMBDA r : r.ComponentClass = "FinalAssembly")

FinishedGoodEdges(r) == SelectSeq(r.flows, LAMBDA e : e.component = "Finished Good")

\* the component event: resolved per BOM line, applied to the line's material cost
ComponentEvent(r) ==
    /\ \A j \in 1..Len(r.component_flow_entries) :
            LET e == r.component_flow_entries[j]
                line == LineAmounts(r.row.SKU, j)
            IN  /\ [rate |-> e.tariff_rate, source |-> e.tariff_source] =
                        compute_tariff_rate(line.class, e.from_country, call.scenario_date,
                                            TariffInputsFrame(call.tariff_records),
                                            data.Tariffs_US)
                /\ e.cost_value = Add(Add(line.material, line.logistics),
                                      Mul(line.material, e.tariff_rate))
    /\ r.component_tariffs_total =
            SumSeq([j \in 1..Len(r.component_flow_entries) |->
                        Mul(LineAmounts(r.row.SKU, j).material,
                            r.component_flow_entries[j].tariff_rate)])

NoFinalEvent(r) ==
    /\ r.final_tariff = [rate |-> Zero, source |-> "Domestic"]
    /\ \A k \in 1..Len(FinishedGoodEdges(r)) :
            /\ FinishedGoodEdges(r)[k].tariff_rate = Zero
            /\ FinishedGoodEdges(r)[k].tariff_source = "Domestic"

ZeroFinalTariff(r) ==
    /\ r.final_tariff_value = Zero
    /\ r.row.Tariffs_CHF = r.component_tariffs_total

NoComponentEvent(r) ==
    /\ \A j \in 1..Len(r.component_flow_entries) :
            /\ r.component_flow_entries[j].tariff_rate = Zero
            /\ r.component_flow_entries[j].tariff_source = "Outside US"
    /\ \A k \in 1..Len(r.flows) :
            r.flows[k].component # "Finished Good"
                => r.flows[k].tariff_rate = Zero /\ r.flows[k].tariff_source = "Outside US"

ZeroComponentTariffs(r) ==
    /\ r.component_tariffs_total = Zero
    /\ r.row.Tariffs_CHF = r.final_tariff_value

\* the call's result when the tables hold no row of a component class
ResultWithoutComponentRows ==
    compute_costs([data EXCEPT !.Tariffs_US = OnlyFinalAssembly(@)], call.scenario_date,
                  call.assembly_site_id, OnlyFinalAssembly(call.tariff_records),
                  call.include_fixed_fees)

ExclusiveEvents(r) ==
    IF AssemblyCountry = US
    THEN ComponentEvent(r) /\ NoFinalEvent(r)
    ELSE NoComponentEvent(r)

ZeroOtherEvent(r) ==
    IF AssemblyCountry = US THEN ZeroFinalTariff(r) ELSE ZeroComponentTariffs(r)

ComponentRowsIrrelevant ==
    AssemblyCountry # US
        => /\ call.result.summary = ResultWithoutComponentRows.summary
           /\ call.result.flows = ResultWithoutComponentRows.flows

\* C16 (as stated): with the assembly site in the United States the component tariff
\* is resolved per BOM line and applied to the line's material cost only, and the
\* finished-good leg is (0.0, "Domestic") with final tariff 0; with the assembly site
\* elsewhere every component edge has rate 0.0 and provenance "Outside US", the
\* component tariffs total 0, and the override and schedule rows of component classes
\* do not change the result
C16_TariffEventsExclusive ==
    (IsCostsCall /\ call.result.status = "ok")
        => /\ \A i \in 1..Len(call.result.rollups) :
                /\ ExclusiveEvents(call.result.rollups[i])
                /\ ZeroOtherEvent(call.result.rollups[i])
           /\ ComponentRowsIrrelevant

\* what the code guarantees: the rates, the provenances and the irrelevance of the
\* component rows always, the zero totals when the CHF rate is a number
C16_ExclusiveForNumericChfRate ==
    (IsCostsCall /\ call.result.status = "ok")
        => /\ \A i \in 1..Len(call.result.rollups) :
                /\ ExclusiveEvents(call.result.rollups[i])
                /\ notna(ChfRate) => ZeroOtherEvent(call.result.rollups[i])
           /\ ComponentRowsIrrelevant

\* the US plant was costed under a NaN CHF rate: the final tariff is NaN, not 0
C16_NaNFinalTariff ==
    /\ IsCostsCall
    /\ call.result.status = "ok"
    /\ call.assembly_site_id = "PLANT_US_MI"
    /\ \E i \in 1..Len(call.result.rollups) :
            /\ call.result.rollups[i].final_tariff.source = "Domestic"
            /\ call.result.rollups[i].final_tariff_value = NaN

\* C16 witness: the Mexican plant was costed with a user rate typed into the
\* (Motor, China) record and a schedule rate for (Motor, China): the motor's edge has
\* rate 0.0 "Outside US", and the finished-good edge carries the final tariff
C16_Witness ==
    /\ IsCostsCall
    /\ call.assembly_site_id = "PLANT_MX_NL"
    /\ \E k \in 1..Len(call.tariff_records) :
            /\ call.tariff_records[k].ComponentClass = "Motor"
            /\ call.tariff_records[k].UserRate_pct.t = "num"
    /\ \E i \in 1..Len(call.result.flows) :
            /\ call.result.flows[i].component = "MOTOR_M1"
            /\ call.result.flows[i].tariff_source = "Outside US"
    /\ \E i \in 1..Len(call.result.flows) :
            /\ call.result.flows[i].component = "Finished Good"
            /\ Gt(call.result.flows[i].tariff_rate, Zero)

\* at the US plant a component edge carries a resolved tariff and the finished-good
\* edge is domestic
C16_USWitness ==
    /\ IsCostsCall
    /\ call.assembly_site_id = "PLANT_US_MI"
    /\ \E i \in 1..Len(call.result.flows) :
            /\ call.result.flows[i].component = "MOTOR_M1"
            /\ call.result.flows[i].tariff_source = "Override"
            /\ Gt(call.result.flows[i].tariff_rate, Zero)
    /\ \E i \in 1..Len(call.result.flows) :
            /\ call.result.flows[i].component = "Finished Good"
            /\ call.result.flows[i].tariff_source = "Domestic"

(***************************************************************************)
(* The landed cost and its tariff part (checked under Spec)                *)
(***************************************************************************)
\* the tariff charged on each BOM line: the line's material cost times its rate
ComponentTariffValues(r) ==
    [j \in 1..Len(r.component_flow_entries) |->
        Mul(LineAmounts(r.row.SKU, j).material, r.component_flow_entries[j].tariff_rate)]

\* the rate of the finished-good leg
FinishedGoodRate ==
    IF AssemblyCountry = US
    THEN [rate |-> Zero, source |-> "Domestic"]
    ELSE compute_tariff_rate("FinalAssembly", AssemblyCountry, call.scenario_date,
                             TariffInputsFrame(call.tariff_records), data.Tariffs_US)

\* C17: for every rolled-up SKU the landed cost is material + inbound logistics +
\* outbound logistics + tariffs + conversion cost, the tariffs are the sum of the
\* component tariffs plus the final tariff, and the final tariff is the finished-good
\* rate times (material + inbound logistics + conversion cost)
C17_LandedCostSum ==
    (IsCostsCall /\ call.result.status = "ok")
        => \A i \in 1..Len(call.result.rollups) :
            LET r == call.result.rollups[i]
                row == r.row
            IN  /\ row.LandedCost_CHF =
                        Add(Add(Add(Add(row.MaterialCost_CHF, row.InboundLogistics_CHF),
                                    row.OutboundLogistics_CHF), row.Tariffs_CHF),
                            row.ConversionCost_CHF)
                /\ row.Tariffs_CHF = Add(SumSeq(ComponentTariffValues(r)), r.final_tariff_value)
                /\ r.final_tariff = FinishedGoodRate
                /\ r.final_tariff_value =
                        Mul(FinishedGoodRate.rate,
                            Add(Add(row.MaterialCost_CHF, row.InboundLogistics_CHF),
                                row.ConversionCost_CHF))
                /\ row = call.result.summary[i]

\* C17 witness: a SKU was rolled up outside the US with material, inbound and outbound
\* logistics, conversion cost and a final tariff all positive
C17_Witness ==
    /\ IsCostsCall
    /\ call.result.status = "ok"
    /\ AssemblyCountry # US
    /\ \E i \in 1..Len(call.result.rollups) :
            LET r == call.result.rollups[i]
            IN  /\ Gt(r.row.MaterialCost_CHF, Zero)
                /\ Gt(r.row.InboundLogistics_CHF, Zero)
                /\ Gt(r.row.OutboundLogistics_CHF, Zero)
                /\ Gt(r.row.ConversionCost_CHF, Zero)
                /\ Gt(r.final_tariff_value, Zero)
                /\ r.row.Tariffs_CHF = r.final_tariff_value

\* a SKU was rolled up in the US with positive component tariffs
C17_USWitness ==
    /\ IsCostsCall
    /\ call.result.status = "ok"
    /\ AssemblyCountry = US
    /\ \E i \in 1..Len(call.result.rollups) :
            /\ Gt(call.result.rollups[i].row.Tariffs_CHF, Zero)
            /\ Gt(call.result.rollups[i].row.OutboundLogistics_CHF, Zero)

(***************************************************************************)
(* The edges of the flow list (checked under Spec)                         *)
(***************************************************************************)
\* material + inbound logistics + tariff value of the j-th BOM line
LineValue(r, j) ==
    LET line == LineAmounts(r.row.SKU, j)
    IN  Add(Add(line.material, line.logistics),
            Mul(line.material, r.component_flow_entries[j].tariff_rate))

\* cost_value / landed cost, 0 if the landed cost is 0
Share(cost_value, landed_cost) ==
    IF landed_cost = Zero THEN Zero ELSE Div(cost_value, landed_cost)

\* "strictly positive" as stated, and as the code tests it for a BOM line
Positive(x, strict) == IF strict THEN Gt(x, Zero) ELSE ~Le(x, Zero)

\* the BOM lines that yield an edge, in BOM order
KeptLines(r, strict) ==
    SelectSeq([j \in 1..Len(r.component_flow_entries) |-> j],
              LAMBDA j : Positive(LineValue(r, j), strict))

\* the edge of the j-th BOM line
EdgeOf(r, j) ==
    LET e == r.component_flow_entries[j]
    IN  [x \in DOMAIN e \cup {"cost_share"} |->
            IF x = "cost_share" THEN Share(LineValue(r, j), r.row.LandedCost_CHF)
            ELSE IF x = "cost_value" THEN LineValue(r, j)
            ELSE e[x]]

ComponentEdges(r) == SelectSeq(r.flows, LAMBDA e : e.component # "Finished Good")

FinishedGoodValue(r) == Add(r.row.OutboundLogistics_CHF, r.final_tariff_value)

EdgesOfSku(r, strict) ==
    /\ \A k \in 1..Len(r.flows) :
            /\ Positive(r.flows[k].cost_value, strict)
            /\ r.flows[k].SKU = r.row.SKU
            /\ r.flows[k].cost_share = Share(r.flows[k].cost_value, r.row.LandedCost_CHF)
    /\ Len(ComponentEdges(r)) = Len(KeptLines(r, strict))
    /\ \A k \in 1..Len(ComponentEdges(r)) :
            k <= Len(KeptLines(r, strict))
                => ComponentEdges(r)[k] = EdgeOf(r, KeptLines(r, strict)[k])
    /\ Len(FinishedGoodEdges(r)) <= 1
    /\ Len(FinishedGoodEdges(r)) = 1 <=> Gt(FinishedGoodValue(r), Zero)
    /\ \A k \in 1..Len(FinishedGoodEdges(r)) :
            /\ FinishedGoodEdges(r)[k].from_site = call.assembly_site_id
            /\ FinishedGoodEdges(r)[k].to_site = US_CUSTOMER_NODE.SiteID
            /\ FinishedGoodEdges(r)[k].cost_value = FinishedGoodValue(r)
    /\ r.flows = ComponentEdges(r) \o FinishedGoodEdges(r)

FlowListInSkuOrder ==
    call.result.flows = FlatMap(LAMBDA r : r.flows, call.result.rollups)

\* C18 (as stated): every edge of the returned flow list has cost_value > 0 and
\* cost_share = cost_value / landed cost of its SKU (0 if the landed cost is 0); a BOM
\* line yields a component edge if and only if its material + inbound logistics +
\* tariff value is strictly positive; a SKU has at most one finished-good edge, from
\* the assembly site to US_CUSTOMER, present if and only if outbound logistics + final
\* tariff is strictly positive; the component edges come in BOM order and the
\* finished-good edge after them
C18_EdgesPositiveInOrder ==
    (IsCostsCall /\ call.result.status = "ok")
        => /\ FlowListInSkuOrder
           /\ \A i \in 1..Len(call.result.rollups) : EdgesOfSku(call.result.rollups[i], TRUE)

\* what the code guarantees: a BOM line yields an edge unless its value is <= 0, so an
\* edge's cost_value is > 0 or NaN; the rest as stated
C18_EdgesNotNonPositive ==
    (IsCostsCall /\ call.result.status = "ok")
        => /\ FlowListInSkuOrder
           /\ \A i \in 1..Len(call.result.rollups) : EdgesOfSku(call.result.rollups[i], FALSE)

\* a component edge with a NaN cost_value was returned
C18_NaNEdgeEmitted ==
    /\ IsCostsCall
    /\ call.result.status = "ok"
    /\ \E k \in 1..Len(call.result.flows) :
            /\ call.result.flows[k].component # "Finished Good"
            /\ call.result.flows[k].cost_value = NaN
            /\ call.result.flows[k].cost_share = NaN

\* with a CHF rate that is a number the edges are as stated
C18_StatedForNumericChfRate ==
    (IsCostsCall /\ call.result.status = "ok" /\ notna(ChfRate))
        => \A i \in 1..Len(call.result.rollups) : EdgesOfSku(call.result.rollups[i], TRUE)

\* a SKU was rolled up with a BOM line dropped, a line kept and the finished-good
\* edge after it
C18_Witness ==
    /\ IsCostsCall
    /\ call.result.status = "ok"
    /\ notna(ChfRate)
    /\ \E i \in 1..Len(call.result.rollups) :
            LET r == call.result.rollups[i]
            IN  /\ Len(ComponentEdges(r)) >= 1
                /\ Len(ComponentEdges(r)) < Len(r.component_flow_entries)
                /\ Len(FinishedGoodEdges(r)) = 1

\* a SKU was rolled up without a finished-good edge
C18_NoFinishedGoodEdge ==
    /\ IsCostsCall
    /\ call.result.status = "ok"
    /\ notna(ChfRate)
    /\ \E i \in 1..Len(call.result.rollups) :
            /\ Len(ComponentEdges(call.result.rollups[i])) >= 1
            /\ FinishedGoodEdges(call.result.rollups[i]) = <<>>

====
